---- MODULE Spec2Model ----
(***************************************************************************)
(* Model of the short-term memory store: the append-only JSONL storage     *)
(* (JSONLStorage), the create_relation tool, the activation service with   *)
(* its index (ActivationGraph) and the activation middleware.              *)
(*                                                                         *)
(* Python dicts are modelled as sequences of records keyed by their "id"   *)
(* field, in insertion order.  None is NoInt for optional integers and     *)
(* NoStr for optional strings.                                             *)
(***************************************************************************)
EXTENDS Integers, Sequences, FiniteSets, TLC

VARIABLES memories, relations, deleted_memory_ids, deleted_relation_ids,
          memFile, relFile, lastOp, graph, mw, call, sqlite

vars == <<memories, relations, deleted_memory_ids, deleted_relation_ids,
          memFile, relFile, lastOp, graph, mw, call, sqlite>>

\* the state of the storage, and the state outside it
storageVars == <<memories, relations, deleted_memory_ids, deleted_relation_ids,
                 memFile, relFile>>

serviceVars == <<graph, mw, call, sqlite>>

\* no activation call is under way
NoCall == [pc |-> "idle"]

\* the tables of a Database that has stored nothing
NoRows == [memories |-> <<>>, relations |-> <<>>]

(***************************************************************************)
(* Bounds                                                                  *)
(***************************************************************************)
\* most lines memories.jsonl and relations.jsonl hold together; at the
\* bound only compact() and the operations that append nothing may run
MaxLines == 4

(***************************************************************************)
(* Values                                                                  *)
(***************************************************************************)
NoInt == -1
NoStr == "None"

\* MemoryStatus members (names) and their serialised values
MemoryStatus == {"ACTIVE", "PROMOTED", "ARCHIVED"}

StatusValue(s) ==
    CASE s = "ACTIVE" -> "active"
      [] s = "PROMOTED" -> "promoted"
      [] s = "ARCHIVED" -> "archived"

StatusFromValue(v) ==
    CASE v = "active" -> "ACTIVE"
      [] v = "promoted" -> "PROMOTED"
      [] v = "archived" -> "ARCHIVED"

\* A Memory; strength is kept in tenths (10 is 1.0)
Memory(id, content, tags, entities, created_at, last_used, use_count, strength) ==
    [id |-> id, content |-> content, tags |-> tags, entities |-> entities,
     created_at |-> created_at, last_used |-> last_used,
     use_count |-> use_count, strength |-> strength, status |-> "ACTIVE",
     promoted_at |-> NoInt, promoted_to |-> NoStr]

Relation(id, from, to, type) ==
    [id |-> id, from_memory_id |-> from, to_memory_id |-> to,
     relation_type |-> type]

(***************************************************************************)
(* Python dict, in insertion order                                         *)
(***************************************************************************)
DictKeys(d) == {d[i].id : i \in 1..Len(d)}

DictHas(d, k) == \E i \in 1..Len(d) : d[i].id = k

DictGet(d, k) == d[CHOOSE i \in 1..Len(d) : d[i].id = k]

\* d[k] = rec: an existing key keeps its position, a new key goes last
DictSet(d, rec) ==
    IF DictHas(d, rec.id)
    THEN [i \in 1..Len(d) |-> IF d[i].id = rec.id THEN rec ELSE d[i]]
    ELSE Append(d, rec)

DictDelTest(k, r) == r.id # k

\* mutant: the key stays in the dict
DictDel_kept(d, k) == d

DictDel(d, k) == SelectSeq(d, LAMBDA r : DictDelTest(k, r))

AsMap(d) == [k \in DictKeys(d) |-> DictGet(d, k)]

(***************************************************************************)
(* Lines of memories.jsonl and relations.jsonl                             *)
(***************************************************************************)
\* memory.model_dump(mode="json"): the enum becomes its value
DumpMemory(m) == [m EXCEPT !.status = StatusValue(@)]

\* Memory(**data)
LoadMemory(data) == [data EXCEPT !.status = StatusFromValue(@)]

DumpRelation(r) == r

LoadRelation(data) == data

DeletionMarker(id) == [id |-> id, _deleted |-> TRUE]

\* data.get("_deleted")
IsDeleted(line) == "_deleted" \in DOMAIN line /\ line._deleted

_append_memory(file, m) == Append(file, DumpMemory(m))

_append_relation(file, r) == Append(file, DumpRelation(r))

\* mutant: the tombstone is never written
_append_deletion_marker_lost(file, id) == file

_append_deletion_marker(file, id) == Append(file, DeletionMarker(id))

(***************************************************************************)
(* connect(): replay of both files by a fresh instance                     *)
(***************************************************************************)
RECURSIVE LoadMemories(_, _, _, _)
LoadMemories(file, i, mems, deleted) ==
    IF i > Len(file) THEN [map |-> mems, deleted |-> deleted]
    ELSE IF IsDeleted(file[i])
         THEN LoadMemories(file, i + 1, DictDel(mems, file[i].id),
                           deleted \cup {file[i].id})
         ELSE LoadMemories(file, i + 1, DictSet(mems, LoadMemory(file[i])),
                           deleted)

RECURSIVE LoadRelations(_, _, _, _)
LoadRelations(file, i, rels, deleted) ==
    IF i > Len(file) THEN [map |-> rels, deleted |-> deleted]
    ELSE IF IsDeleted(file[i])
         THEN LoadRelations(file, i + 1, DictDel(rels, file[i].id),
                            deleted \cup {file[i].id})
         ELSE LoadRelations(file, i + 1, DictSet(rels, LoadRelation(file[i])),
                            deleted)

connect(mfile, rfile) ==
    LET m == LoadMemories(mfile, 1, <<>>, {})
        r == LoadRelations(rfile, 1, <<>>, {})
    IN [memories |-> m.map, relations |-> r.map,
        deleted_memory_ids |-> m.deleted, deleted_relation_ids |-> r.deleted]

(***************************************************************************)
(* Inputs of the storage operations                                        *)
(***************************************************************************)
StoreIds == {"a", "b"}

SaveInputs ==
    { Memory("a", <<"typescript project">>, <<"TS">>, <<>>, 0, 0, 0, 10),
      Memory("b", <<"react">>, <<>>, <<"React">>, 0, 0, 0, 10) }

\* the optional arguments of update_memory; NoInt, NoStr: not supplied
Partial(last_used, use_count, strength, status, promoted_at, promoted_to) ==
    [last_used |-> last_used, use_count |-> use_count, strength |-> strength,
     status |-> status, promoted_at |-> promoted_at, promoted_to |-> promoted_to]

UpdateInputs ==
    { Partial(1, 1, 11, NoStr, NoInt, NoStr),
      Partial(NoInt, NoInt, NoInt, "PROMOTED", 1, "vault/a.md") }

RelIds == {"r1", "r2"}

RelTypes == {"related", ""}

\* relations handed to the storage directly (migration, agents, callers)
RelationInputs ==
    { Relation(id, "a", "b", type) : id \in RelIds, type \in RelTypes }

Room == Len(memFile) + Len(relFile) < MaxLines

(***************************************************************************)
(* JSONLStorage operations                                                 *)
(***************************************************************************)
\* _memories.get(memory_id): <<m>> for a memory, None for none
None == <<>>

get_memory(mems, id) == IF DictHas(mems, id) THEN <<DictGet(mems, id)>> ELSE None

save_memory(m) ==
    /\ Room
    /\ memories' = DictSet(memories, m)
    /\ memFile' = _append_memory(memFile, m)
    /\ lastOp' = [op |-> "save_memory"]
    /\ UNCHANGED <<relations, deleted_memory_ids, deleted_relation_ids, relFile>>
    /\ UNCHANGED serviceVars

\* mutant: promoted_to is not stored
ApplyPartial_nopath(m, p) ==
    [m EXCEPT !.last_used = IF p.last_used # NoInt THEN p.last_used ELSE @,
              !.use_count = IF p.use_count # NoInt THEN p.use_count ELSE @,
              !.strength = IF p.strength # NoInt THEN p.strength ELSE @,
              !.status = IF p.status # NoStr THEN p.status ELSE @,
              !.promoted_at = IF p.promoted_at # NoInt THEN p.promoted_at ELSE @]

\* mutant: a strength that is not supplied is reset to the default
ApplyPartial_reset(m, p) ==
    [m EXCEPT !.last_used = IF p.last_used # NoInt THEN p.last_used ELSE @,
              !.use_count = IF p.use_count # NoInt THEN p.use_count ELSE @,
              !.strength = IF p.strength # NoInt THEN p.strength ELSE 10,
              !.status = IF p.status # NoStr THEN p.status ELSE @,
              !.promoted_at = IF p.promoted_at # NoInt THEN p.promoted_at ELSE @,
              !.promoted_to = IF p.promoted_to # NoStr THEN p.promoted_to ELSE @]

ApplyPartial(m, p) ==
    [m EXCEPT !.last_used = IF p.last_used # NoInt THEN p.last_used ELSE @,
              !.use_count = IF p.use_count # NoInt THEN p.use_count ELSE @,
              !.strength = IF p.strength # NoInt THEN p.strength ELSE @,
              !.status = IF p.status # NoStr THEN p.status ELSE @,
              !.promoted_at = IF p.promoted_at # NoInt THEN p.promoted_at ELSE @,
              !.promoted_to = IF p.promoted_to # NoStr THEN p.promoted_to ELSE @]

update_memory(id, p) ==
    /\ UNCHANGED serviceVars
    /\ IF ~DictHas(memories, id)
       THEN /\ lastOp' = [op |-> "update_memory", result |-> FALSE, memory_id |-> id,
                          partial |-> p]
            /\ UNCHANGED <<memories, relations, deleted_memory_ids,
                           deleted_relation_ids, memFile, relFile>>
       ELSE /\ Room
            /\ memories' = DictSet(memories, ApplyPartial(DictGet(memories, id), p))
            /\ memFile' = _append_memory(memFile, DictGet(memories', id))
            /\ lastOp' = [op |-> "update_memory", result |-> TRUE, memory_id |-> id,
                          partial |-> p]
            /\ UNCHANGED <<relations, deleted_memory_ids, deleted_relation_ids, relFile>>

delete_memory(id) ==
    /\ UNCHANGED serviceVars
    /\ IF ~DictHas(memories, id)
       THEN /\ lastOp' = [op |-> "delete_memory", result |-> FALSE]
            /\ UNCHANGED <<memories, relations, deleted_memory_ids,
                           deleted_relation_ids, memFile, relFile>>
       ELSE /\ Room
            /\ memories' = DictDel(memories, id)
            /\ deleted_memory_ids' = deleted_memory_ids \cup {id}
            /\ memFile' = _append_deletion_marker(memFile, id)
            /\ lastOp' = [op |-> "delete_memory", result |-> TRUE]
            /\ UNCHANGED <<relations, deleted_relation_ids, relFile>>

create_relation(r) ==
    /\ Room
    /\ relations' = DictSet(relations, r)
    /\ relFile' = _append_relation(relFile, r)
    /\ lastOp' = [op |-> "create_relation"]
    /\ UNCHANGED <<memories, deleted_memory_ids, deleted_relation_ids, memFile>>
    /\ UNCHANGED serviceVars

\* the filters test the truth of their argument: "" does not filter
RelationMatches(r, from, to, type) ==
    /\ (from # "" => r.from_memory_id = from)
    /\ (to # "" => r.to_memory_id = to)
    /\ (type # "" => r.relation_type = type)

get_relations(rels, from, to, type) ==
    SelectSeq(rels, LAMBDA r : RelationMatches(r, from, to, type))

delete_relation(id) ==
    /\ UNCHANGED serviceVars
    /\ IF ~DictHas(relations, id)
       THEN /\ lastOp' = [op |-> "delete_relation", result |-> FALSE]
            /\ UNCHANGED <<memories, relations, deleted_memory_ids,
                           deleted_relation_ids, memFile, relFile>>
       ELSE /\ Room
            /\ relations' = DictDel(relations, id)
            /\ deleted_relation_ids' = deleted_relation_ids \cup {id}
            /\ relFile' = _append_deletion_marker(relFile, id)
            /\ lastOp' = [op |-> "delete_relation", result |-> TRUE]
            /\ UNCHANGED <<memories, deleted_memory_ids, memFile>>

\* uuid.uuid4(): an id that no relation has and no line of the file names
FreshRelationIds == {id \in RelIds : /\ ~DictHas(relations, id)
                                     /\ \A i \in 1..Len(relFile) : relFile[i].id # id}

ToolResult(from, to, type, success, relation_id, existing) ==
    [op |-> "create_relation_handler", from |-> from, to |-> to, type |-> type,
     success |-> success, relation_id |-> relation_id,
     existing_relation_id |-> existing]

\* the create_relation tool
create_relation_handler(from_id, to_id, relation_type) ==
    /\ UNCHANGED serviceVars
    /\ LET existing == get_relations(relations, from_id, to_id, relation_type)
       IN IF get_memory(memories, from_id) = None \/ get_memory(memories, to_id) = None
          THEN /\ lastOp' = ToolResult(from_id, to_id, relation_type, FALSE, NoStr, NoStr)
               /\ UNCHANGED <<memories, relations, deleted_memory_ids,
                              deleted_relation_ids, memFile, relFile>>
          ELSE IF existing # <<>>
          THEN /\ lastOp' = ToolResult(from_id, to_id, relation_type, FALSE, NoStr,
                                       existing[1].id)
               /\ UNCHANGED <<memories, relations, deleted_memory_ids,
                              deleted_relation_ids, memFile, relFile>>
          ELSE \E relation_id \in FreshRelationIds :
               /\ Room
               /\ relations' = DictSet(relations,
                                       Relation(relation_id, from_id, to_id, relation_type))
               /\ relFile' = _append_relation(relFile, DictGet(relations', relation_id))
               /\ lastOp' = ToolResult(from_id, to_id, relation_type, TRUE,
                                       relation_id, NoStr)
               /\ UNCHANGED <<memories, deleted_memory_ids, deleted_relation_ids, memFile>>

\* mutant: the rewrite copies the lines of the file instead of the live records
CompactMemories_copy(mems) == memFile

CompactMemories(mems) == [i \in 1..Len(mems) |-> DumpMemory(mems[i])]

CompactRelations(rels) == [i \in 1..Len(rels) |-> DumpRelation(rels[i])]

compact ==
    /\ memFile' = CompactMemories(memories)
    /\ relFile' = CompactRelations(relations)
    /\ deleted_memory_ids' = {}
    /\ deleted_relation_ids' = {}
    /\ lastOp' = [op |-> "compact",
                  memories_before |-> Len(memFile),
                  memories_after |-> Len(memories),
                  relations_before |-> Len(relFile),
                  relations_after |-> Len(relations)]
    /\ UNCHANGED <<memories, relations>>
    /\ UNCHANGED serviceVars

(***************************************************************************)
(* Keyword extraction.  A text is the sequence of the phrases RAKE ranks   *)
(* in it, best first; " " is white space.                                  *)
(***************************************************************************)
\* str.lower() on the words of the model
lower(s) == CASE s = "TS" -> "ts"
              [] s = "React" -> "react"
              [] OTHER -> s

Min2(x, y) == IF x < y THEN x ELSE y

Max2(x, y) == IF x > y THEN x ELSE y

RECURSIVE Pow2(_)
Pow2(k) == IF k = 0 THEN 1 ELSE 2 * Pow2(k - 1)

\* str.strip(): white space at both ends goes
RECURSIVE strip(_)
strip(text) ==
    IF text = <<>> THEN text
    ELSE IF Head(text) = " " THEN strip(Tail(text))
    ELSE IF text[Len(text)] = " " THEN strip(SubSeq(text, 1, Len(text) - 1))
    ELSE text

\* KeywordExtractor.extract_keywords: lower-cased phrases, the best max_keywords
extract_keywords(text, max_keywords) ==
    LET phrases == SelectSeq(text, LAMBDA w : w # " ")
    IN [i \in 1..Min2(Len(phrases), max_keywords) |-> lower(phrases[i])]

Range(seq) == {seq[i] : i \in 1..Len(seq)}

LowerSet(seq) == {lower(seq[i]) : i \in 1..Len(seq)}

(***************************************************************************)
(* ActivationGraph                                                         *)
(***************************************************************************)
MemIds == {"a", "b", "c", "d", "e"}

\* the keys an index of the model can hold
Terms == {"ts", "react", "db", "misc", "TS", "React"}

\* mutant: the tags and entities are indexed as they are written
build_activation_graph_cased(mems, rels) ==
    [keyword_to_memories |->
         [t \in Terms |-> {mems[i].id : i \in {j \in 1..Len(mems) :
                               t \in Range(extract_keywords(mems[j].content, 10))}}],
     entity_to_memories |->
         [t \in Terms |-> {mems[i].id : i \in {j \in 1..Len(mems) :
                               t \in Range(mems[j].entities)}}],
     tag_to_memories |->
         [t \in Terms |-> {mems[i].id : i \in {j \in 1..Len(mems) :
                               t \in Range(mems[j].tags)}}],
     outgoing_relations |->
         [id \in MemIds |->
             LET out == SelectSeq(rels, LAMBDA r : r.from_memory_id = id)
             IN [i \in 1..Len(out) |-> out[i].to_memory_id]],
     memory_count |-> Len(mems),
     relation_count |-> Len(rels)]

\* build_activation_graph: a term that is no key of an index maps to {}
build_activation_graph(mems, rels) ==
    [keyword_to_memories |->
         [t \in Terms |-> {mems[i].id : i \in {j \in 1..Len(mems) :
                               t \in Range(extract_keywords(mems[j].content, 10))}}],
     entity_to_memories |->
         [t \in Terms |-> {mems[i].id : i \in {j \in 1..Len(mems) :
                               t \in LowerSet(mems[j].entities)}}],
     tag_to_memories |->
         [t \in Terms |-> {mems[i].id : i \in {j \in 1..Len(mems) :
                               t \in LowerSet(mems[j].tags)}}],
     outgoing_relations |->
         [id \in MemIds |->
             LET out == SelectSeq(rels, LAMBDA r : r.from_memory_id = id)
             IN [i \in 1..Len(out) |-> out[i].to_memory_id]],
     memory_count |-> Len(mems),
     relation_count |-> Len(rels)]

\* ActivationGraph(): the graph with nothing indexed
EmptyGraph == build_activation_graph(<<>>, <<>>)

find_by_keywords(g, keywords) ==
    UNION {g.keyword_to_memories[keywords[i]] : i \in 1..Len(keywords)}

find_by_entities(g, entities) ==
    UNION {g.entity_to_memories[entities[i]] : i \in 1..Len(entities)}

find_by_tags(g, tags) ==
    UNION {g.tag_to_memories[tags[i]] : i \in 1..Len(tags)}

get_related_memories(g, memory_id) == g.outgoing_relations[memory_id]

\* list_memories(): every stored memory, the last used first (a stable sort)
RECURSIVE SortedByLastUsed(_)
SortedByLastUsed(mems) ==
    IF mems = <<>> THEN <<>>
    ELSE LET top == CHOOSE i \in 1..Len(mems) :
                        /\ \A j \in 1..Len(mems) : mems[j].last_used <= mems[i].last_used
                        /\ \A j \in 1..(i - 1) : mems[j].last_used < mems[i].last_used
         IN <<mems[top]>> \o SortedByLastUsed(SubSeq(mems, 1, top - 1)
                                                \o SubSeq(mems, top + 1, Len(mems)))

list_memories(mems) == SortedByLastUsed(mems)

\* _rebuild_index: a failure of the storage leaves the empty graph
_rebuild_index(mems, rels, fails) ==
    IF fails THEN EmptyGraph ELSE build_activation_graph(list_memories(mems), rels)

(***************************************************************************)
(* Scores, in thousandths                                                  *)
(***************************************************************************)
SCALE == 1000

\* math.pow(use_count, beta) for beta = 0.6, in thousandths
PowBeta(n) == CASE n = 1 -> 1000
                [] n = 2 -> 1516
                [] n = 3 -> 1933
                [] OTHER -> 2297

\* mutant: a now before last_used counts as a negative time
calculate_score_signed(use_count, last_used, strength, now) ==
    LET time_delta == now - last_used
        use_component == IF use_count > 0 THEN PowBeta(use_count) ELSE 0
        decay_component == IF time_delta >= 0 THEN SCALE \div Pow2(time_delta)
                           ELSE SCALE * Pow2(0 - time_delta)
    IN (use_component * decay_component * strength) \div (SCALE * 10)

\* calculate_score: time counts half-lives, strength counts tenths
calculate_score(use_count, last_used, strength, now) ==
    LET time_delta == Max2(0, now - last_used)
        use_component == IF use_count > 0 THEN PowBeta(use_count) ELSE 0
        decay_component == SCALE \div Pow2(time_delta)
    IN (use_component * decay_component * strength) \div (SCALE * 10)

\* min(temporal_score / 2.0, 1.0)
NormalizedTemporal(mem, now) ==
    Min2(calculate_score(mem.use_count, mem.last_used, mem.strength, now) \div 2, SCALE)

\* the Field(ge=0.0, le=1.0) validators of ActivationScore
ScoreFieldsValid(base_relevance, temporal_score, spreading_score) ==
    /\ base_relevance \in 0..SCALE
    /\ temporal_score \in 0..SCALE
    /\ spreading_score \in 0..SCALE

\* mutant: the temporal score weighs 0.5 and the relevance 0.3
FinalScore_temporal(base_relevance, temporal_score, spreading_score) ==
    Min2((3 * base_relevance + 5 * temporal_score + 2 * spreading_score) \div 10, SCALE)

\* 0.5 * base_relevance + 0.3 * temporal_score + 0.2 * spreading_score, at most 1.0
FinalScore(base_relevance, temporal_score, spreading_score) ==
    Min2((5 * base_relevance + 3 * temporal_score + 2 * spreading_score) \div 10, SCALE)

\* ActivationScore.calculate; the score is keyed by id, its memory_id
calculate(memory_id, base_relevance, temporal_score, spreading_score, source, matched_keywords) ==
    [id |-> memory_id,
     base_relevance |-> base_relevance,
     temporal_score |-> temporal_score,
     spreading_score |-> spreading_score,
     final_score |-> FinalScore(base_relevance, temporal_score, spreading_score),
     source |-> source,
     matched_keywords |-> matched_keywords]

\* _find_candidates
_find_candidates(g, keywords) ==
    LET lowered == [i \in 1..Len(keywords) |-> lower(keywords[i])]
    IN find_by_keywords(g, keywords) \cup find_by_entities(g, lowered)
           \cup find_by_tags(g, lowered)

\* _calculate_keyword_relevance: <<relevance, matched keywords>>
_calculate_keyword_relevance(memory, keywords) ==
    IF keywords = <<>> THEN <<0, {}>>
    ELSE LET keywords_lower == LowerSet(keywords)
             memory_terms == LowerSet(memory.tags) \cup LowerSet(memory.entities)
                               \cup LowerSet(extract_keywords(memory.content, 20))
             matched == keywords_lower \cap memory_terms
         IN <<Min2((Cardinality(matched) * SCALE) \div Cardinality(keywords_lower), SCALE),
              matched>>

(***************************************************************************)
(* ActivationService.activate                                              *)
(***************************************************************************)
ActivationContext(message, keywords, already_activated, max_memories, activation_threshold, enable_spreading) ==
    [message |-> message, keywords |-> keywords,
     already_activated |-> already_activated, max_memories |-> max_memories,
     activation_threshold |-> activation_threshold,
     enable_spreading |-> enable_spreading]

ActivationResult(activated_memories, activation_scores, direct_matches, spread_matches, total_candidates, fallback_tier) ==
    [activated_memories |-> activated_memories,
     activation_scores |-> activation_scores,
     direct_matches |-> direct_matches, spread_matches |-> spread_matches,
     total_candidates |-> total_candidates, fallback_tier |-> fallback_tier]

EmptyResult(tier) == ActivationResult(<<>>, <<>>, {}, {}, 0, tier)

\* a step of activate that raises: the stage, and for the spreading step the
\* call of db.get_memory that raises
Fault(stage, at) == [stage |-> stage, at |-> at]

NoFault == Fault("none", 0)

\* the steps of activate outside the spreading step
Stages == {"extract", "find", "fetch", "score", "rank"}

\* mutant: the ranking is outside the try block
Guarded_unranked == Stages \ {"rank"}

\* the steps between try: and except Exception:
Guarded == Stages

\* the loop over memory_map.items(): one score per fetched memory
ScoreDirect(mems, memory_map, keywords, now) ==
    [i \in 1..Len(memory_map) |->
        LET memory == DictGet(mems, memory_map[i])
            rel == _calculate_keyword_relevance(memory, keywords)
        IN calculate(memory_map[i], rel[1], NormalizedTemporal(memory, now), 0,
                     "direct", rel[2])]

ScoresValid(scores) ==
    \A i \in 1..Len(scores) :
        ScoreFieldsValid(scores[i].base_relevance, scores[i].temporal_score,
                         scores[i].spreading_score)

max_hops == 3

SpreadSource(hop_distance) ==
    IF hop_distance = 0 THEN "spread_1hop"
    ELSE IF hop_distance = 1 THEN "spread_2hop"
    ELSE "spread_3hop"

\* mutant: nothing is visited when the traversal starts
InitialVisited_none(direct_matches) == {}

\* visited = set(direct_matches)
InitialVisited(direct_matches) == direct_matches

\* the body of "for related_id in related_ids", from the i-th related id on
RECURSIVE VisitRelated(_, _, _, _, _, _, _, _)
VisitRelated(g, mems, now, fault_at, st, head, related_ids, i) ==
    IF st.raised \/ i > Len(related_ids) THEN st
    ELSE LET related_id == related_ids[i]
             seen == [st EXCEPT !.visited = @ \cup {related_id}]
             fetched == [seen EXCEPT !.gets = @ + 1]
             cached == related_id \in st.memory_map
             now_st == IF cached THEN seen ELSE fetched
             spreading_score == head.score \div Pow2(head.hop + 1)
             temporal_score == NormalizedTemporal(DictGet(mems, related_id), now)
             scored ==
                 [now_st EXCEPT
                     !.memory_map = @ \cup {related_id},
                     !.scores = DictSet(@, calculate(related_id, 0, temporal_score,
                                                     spreading_score,
                                                     SpreadSource(head.hop), {})),
                     !.calcs[related_id] = @ + 1,
                     !.spread = @ \cup {related_id},
                     !.queue = Append(@, [id |-> related_id, hop |-> head.hop + 1,
                                          score |-> spreading_score])]
         IN IF related_id \in st.visited
            THEN VisitRelated(g, mems, now, fault_at, st, head, related_ids, i + 1)
            ELSE IF ~cached /\ fetched.gets = fault_at
            THEN [fetched EXCEPT !.raised = TRUE]
            ELSE IF ~cached /\ get_memory(mems, related_id) = None
            THEN VisitRelated(g, mems, now, fault_at, fetched, head, related_ids, i + 1)
            ELSE IF ~ScoreFieldsValid(0, temporal_score, spreading_score)
            THEN [now_st EXCEPT !.raised = TRUE]
            ELSE VisitRelated(g, mems, now, fault_at, scored, head, related_ids, i + 1)

\* the loop "while queue"
RECURSIVE SpreadQueue(_, _, _, _, _)
SpreadQueue(g, mems, now, fault_at, st) ==
    IF st.raised \/ st.queue = <<>> THEN st
    ELSE LET head == Head(st.queue)
             popped == [st EXCEPT !.queue = Tail(@)]
         IN IF head.hop >= max_hops
            THEN SpreadQueue(g, mems, now, fault_at, popped)
            ELSE SpreadQueue(g, mems, now, fault_at,
                             VisitRelated(g, mems, now, fault_at, popped, head,
                                          get_related_memories(g, head.id), 1))

\* _apply_spreading_activation: activation_scores and memory_map are updated in
\* place, so the state it leaves is the state of its caller also when it raises
_apply_spreading_activation(g, mems, direct_matches, activation_scores, now, fault_at, queue_order) ==
    SpreadQueue(g, mems, now, fault_at,
                [queue |-> [i \in 1..Len(queue_order) |->
                               [id |-> queue_order[i], hop |-> 0,
                                score |-> DictGet(activation_scores,
                                                  queue_order[i]).final_score]],
                 visited |-> InitialVisited(direct_matches),
                 scores |-> activation_scores,
                 memory_map |-> direct_matches,
                 spread |-> {},
                 gets |-> 0,
                 calcs |-> [id \in MemIds |-> IF id \in direct_matches THEN 1 ELSE 0],
                 raised |-> FALSE])

\* mutant: the scores stay in the order they were computed in
InsertRanked_unsorted(ranked, s) == Append(ranked, s)

\* sorted(..., key=final_score, reverse=True): stable for equal scores
InsertRanked(ranked, s) ==
    LET pos == Cardinality({i \in 1..Len(ranked) : ranked[i].final_score >= s.final_score})
    IN SubSeq(ranked, 1, pos) \o <<s>> \o SubSeq(ranked, pos + 1, Len(ranked))

RECURSIVE ranked_scores(_)
ranked_scores(scores) ==
    IF scores = <<>> THEN <<>>
    ELSE InsertRanked(ranked_scores(SubSeq(scores, 1, Len(scores) - 1)),
                      scores[Len(scores)])

\* mutant: the threshold is not applied
Filtered_all(ranked, activation_threshold) == ranked

Filtered(ranked, activation_threshold) ==
    SelectSeq(ranked, LAMBDA s : s.final_score >= activation_threshold)

\* mutant: the ranking is not cut
TopK_all(filtered, max_memories) == filtered

TopK(filtered, max_memories) == SubSeq(filtered, 1, Min2(Len(filtered), max_memories))

\* what one call of activate leaves: the graph of the service, the result or
\* the exception, and the scores as they stood when the ranking began
Outcome(g, result, raised, propagated, spread_raised, scored, calcs) ==
    [graph |-> g, result |-> result, raised |-> raised, propagated |-> propagated,
     spread_raised |-> spread_raised, scored |-> scored, calcs |-> calcs]

NoCalcs == [id \in MemIds |-> 0]

\* except Exception: the empty result of tier error
Raise(g, stage) ==
    IF stage \in Guarded
    THEN Outcome(g, EmptyResult("error"), stage, FALSE, FALSE, <<>>, NoCalcs)
    ELSE Outcome(g, EmptyResult(NoStr), stage, TRUE, FALSE, <<>>, NoCalcs)

\* "if self.graph is None or self.graph.memory_count == 0: self._rebuild_index()"
EnsuredGraph(g, mems, rels, fault) ==
    IF g.memory_count = 0 THEN _rebuild_index(mems, rels, fault.stage = "rebuild") ELSE g

KeywordsOf(context) ==
    IF context.keywords # <<>> THEN context.keywords
    ELSE extract_keywords(context.message, 20)

CandidateIds(g, context) ==
    _find_candidates(g, KeywordsOf(context)) \ context.already_activated

\* the orders in which a set can be iterated
Orders(S) == {o \in [1..Cardinality(S) -> S] : \A i, j \in DOMAIN o : o[i] = o[j] => i = j}

\* the candidates the storage still holds
Fetched(mems, ids) == {id \in ids : get_memory(mems, id) # None}

\* activate; order is the iteration order of candidate_ids, queue_order that of
\* direct_matches
activate(g, mems, rels, context, now, fault, order, queue_order) ==
    LET graph1 == EnsuredGraph(g, mems, rels, fault)
        keywords == KeywordsOf(context)
        candidate_ids == CandidateIds(graph1, context)
        memory_map == SelectSeq(order, LAMBDA id : get_memory(mems, id) # None)
        direct_scores == ScoreDirect(mems, memory_map, keywords, now)
        direct_matches == Range(memory_map)
        st == _apply_spreading_activation(graph1, mems, direct_matches, direct_scores,
                  now, IF fault.stage = "spread" THEN fault.at ELSE 0, queue_order)
        spreads == context.enable_spreading
        activation_scores == IF spreads THEN st.scores ELSE direct_scores
        spread_matches == IF spreads /\ ~st.raised THEN st.spread ELSE {}
        fallback_tier == IF spreads /\ st.raised THEN "keyword_only" ELSE "full"
        top_k == TopK(Filtered(ranked_scores(activation_scores),
                               context.activation_threshold),
                      context.max_memories)
        calcs == IF spreads THEN st.calcs
                 ELSE [id \in MemIds |-> IF id \in direct_matches THEN 1 ELSE 0]
    IN IF context.keywords = <<>> /\ fault.stage = "extract" THEN Raise(graph1, "extract")
       ELSE IF fault.stage = "find" THEN Raise(graph1, "find")
       ELSE IF candidate_ids = {}
       THEN Outcome(graph1, EmptyResult("full"), "none", FALSE, FALSE, <<>>, NoCalcs)
       ELSE IF fault.stage = "fetch" THEN Raise(graph1, "fetch")
       ELSE IF memory_map # <<>> /\ (fault.stage = "score" \/ ~ScoresValid(direct_scores))
       THEN Raise(graph1, "score")
       ELSE IF fault.stage = "rank" THEN Raise(graph1, "rank")
       ELSE Outcome(graph1,
                    ActivationResult([i \in 1..Len(top_k) |-> top_k[i].id], top_k,
                                     direct_matches, spread_matches,
                                     Cardinality(candidate_ids), fallback_tier),
                    "none", FALSE, spreads /\ st.raised, activation_scores, calcs)

(***************************************************************************)
(* The inputs of the activation service                                    *)
(***************************************************************************)
\* most calls of db.get_memory the spreading step makes before one raises
MaxSpreadFault == 2

Faults ==
    {Fault(stage, 0) : stage \in {"none", "rebuild"} \cup Stages}
        \cup {Fault("spread", at) : at \in 1..MaxSpreadFault}

Clock == {1}

\* keywords given, or a message to extract them from
Queries ==
    { [message |-> <<"TS">>, keywords |-> <<>>],
      [message |-> <<"TS", "React">>, keywords |-> <<"TS", "react">>],
      [message |-> <<>>, keywords |-> <<"db">>] }

\* already_activated, max_memories in 1..100, activation_threshold in 0..1
\* and enable_spreading
Setting(already_activated, max_memories, activation_threshold, enable_spreading) ==
    [already_activated |-> already_activated, max_memories |-> max_memories,
     activation_threshold |-> activation_threshold,
     enable_spreading |-> enable_spreading]

Settings ==
    { Setting({}, 1, 0, TRUE),
      Setting({"c"}, 10, 300, TRUE),
      Setting({"a"}, 10, 500, TRUE),
      Setting({}, 10, 300, FALSE) }

Contexts ==
    { ActivationContext(q.message, q.keywords, s.already_activated, s.max_memories,
                        s.activation_threshold, s.enable_spreading) :
          q \in Queries, s \in Settings }

\* the memories the service runs over
ServiceMemories ==
    << Memory("a", <<"ts">>, <<"TS">>, <<>>, 0, 1, 4, 20),
       Memory("b", <<"React">>, <<>>, <<"React">>, 0, 0, 1, 10),
       Memory("c", <<"db">>, <<>>, <<>>, 0, 1, 4, 20),
       Memory("d", <<"misc">>, <<>>, <<>>, 0, 0, 0, 10),
       Memory("e", <<"misc">>, <<>>, <<>>, 0, 1, 2, 10) >>

EdgeIds == <<"r1", "r2", "r3", "r4", "r5", "r6">>

Edges(pairs) ==
    [i \in 1..Len(pairs) |->
        Relation(EdgeIds[i], pairs[i][1], pairs[i][2], "related")]

\* a chain with cycles, a diamond, and direct matches that relate to each other
ServiceRelations ==
    { Edges(<< <<"a", "c">>, <<"c", "d">>, <<"d", "e">>, <<"e", "b">>,
               <<"c", "a">>, <<"d", "c">> >>),
      Edges(<< <<"a", "c">>, <<"a", "d">>, <<"c", "e">>, <<"d", "e">>,
               <<"e", "a">>, <<"b", "c">> >>),
      Edges(<< <<"b", "a">>, <<"a", "b">>, <<"a", "e">> >>) }

\* the memories deleted since the service built its graph
ServiceDeleted == {{}, {"c"}}

\* delete_memory for each of the ids: what is left in _memories
RECURSIVE DeletedAll(_, _)
DeletedAll(mems, ids) ==
    IF ids = {} THEN mems
    ELSE LET id == CHOOSE x \in ids : TRUE
         IN DeletedAll(DictDel(mems, id), ids \ {id})

RECURSIVE Tombstones(_)
Tombstones(ids) ==
    IF ids = {} THEN <<>>
    ELSE LET id == CHOOSE x \in ids : TRUE
         IN <<DeletionMarker(id)>> \o Tombstones(ids \ {id})

(***************************************************************************)
(* ActivationMiddleware                                                    *)
(***************************************************************************)
\* an argument of a tool call: a string, or a value that is no string
Str(text) == [type |-> "str", text |-> text]

NotStr == [type |-> "int", text |-> <<>>]

\* the key is not in the arguments
Missing == [type |-> "none", text |-> <<>>]

\* query_extractors: the argument that holds the query of a tool
QueryField(tool_name) ==
    CASE tool_name = "search_memory" -> "query"
      [] tool_name = "save_memory" -> "content"
      [] tool_name = "search_unified" -> "query"
      [] OTHER -> NoStr

\* _extract_query; arguments is None or <<dict>>, and None.get(...) raises
_extract_query(tool_name, arguments) ==
    LET query_field == QueryField(tool_name)
        query == arguments[1][query_field]
    IN IF query_field = NoStr THEN [raised |-> FALSE, query |-> None]
       ELSE IF arguments = None THEN [raised |-> TRUE, query |-> None]
       ELSE IF query.type = "str" /\ query.text # <<>>
       THEN [raised |-> FALSE, query |-> <<strip(query.text)>>]
       ELSE [raised |-> FALSE, query |-> None]

\* the context on_call_tool builds for a query
MiddlewareContext(query) == ActivationContext(query, <<>>, {}, 10, 500, TRUE)

\* what the continuation returns for a call
call_next(tool_name, arguments) == [tool |-> tool_name, arguments |-> arguments]

ToolNames == {"search_memory", "save_memory", "create_relation", "unknown_tool"}

ToolArguments ==
    { None,
      <<[query |-> Str(<<" ", "TS", " ">>), content |-> Missing]>>,
      <<[query |-> Str(<<" ">>), content |-> Str(<<"db">>)]>>,
      <<[query |-> NotStr, content |-> Str(<<>>)]>> }

\* no call in flight
IdleMw ==
    [pc |-> "idle", tool |-> NoStr, arguments |-> None, fastmcp_context |-> FALSE,
     query |-> None, activation |-> "none", activated_memories |-> None,
     calls |-> 0, returned |-> None, late |-> FALSE, received |-> None]

\* mutant: the query is popped from the arguments
get_pops(arguments, key) ==
    IF arguments = None \/ key = NoStr THEN arguments
    ELSE <<[arguments[1] EXCEPT ![key] = Missing]>>

\* arguments.get(query_field) leaves the arguments as they are
get(arguments, key) == arguments

\* on_call_tool up to its first await
on_call_tool(tool_name, arguments, fastmcp_context) ==
    /\ mw.pc \in {"idle", "done"}
    /\ LET extracted == _extract_query(tool_name, arguments)
           activates == /\ ~extracted.raised
                        /\ extracted.query # None
                        /\ extracted.query[1] # <<>>
       IN mw' = [IdleMw EXCEPT !.pc = IF activates THEN "activating" ELSE "call_next",
                               !.tool = tool_name,
                               !.arguments = get(arguments, QueryField(tool_name)),
                               !.received = arguments,
                               !.fastmcp_context = fastmcp_context,
                               !.query = extracted.query,
                               !.activation = IF extracted.raised THEN "extract_raised"
                                              ELSE IF activates THEN "pending"
                                              ELSE "skipped"]
    /\ lastOp' = [op |-> "on_call_tool"]
    /\ UNCHANGED <<storageVars, graph, call, sqlite>>

\* mutant: a timeout ends the call
AfterActivation_timeout(outcome) == IF outcome = "timeout" THEN "done" ELSE "call_next"

\* both except clauses fall through to "return await call_next(context)"
AfterActivation(outcome) == "call_next"

\* how a call of the service runs: activate may suspend at an await (the
\* activate of ActivationService has none), end after the deadline, or raise
Run(suspends, late, raises) == [suspends |-> suspends, late |-> late, raises |-> raises]

Runs == {Run(suspends, late, raises) : suspends \in BOOLEAN, late \in BOOLEAN,
                                       raises \in BOOLEAN}

\* asyncio.wait_for: the timeout cancels the call at an await it is suspended
\* at; a call that never suspends runs to its end
wait_for(run) ==
    IF run.suspends /\ run.late THEN "timeout"
    ELSE IF run.raises THEN "raises"
    ELSE "result"

\* await asyncio.wait_for(activate(...)): a result, a timeout or an exception;
\* set_state may raise too
activation_ends(outcome, late, set_state_raises, now, order, queue_order) ==
    /\ mw.pc = "activating"
    /\ LET out == activate(graph, memories, relations, MiddlewareContext(mw.query[1]),
                           now, NoFault, order, queue_order)
       IN /\ graph' \in IF outcome = "result" THEN {out.graph} ELSE {graph, out.graph}
          /\ mw' = [mw EXCEPT
                       !.pc = AfterActivation(outcome),
                       !.activation = outcome,
                       !.late = late,
                       !.activated_memories =
                           IF outcome = "result" /\ mw.fastmcp_context /\ ~set_state_raises
                           THEN <<out.result>> ELSE @]
    /\ lastOp' = [op |-> "wait_for", outcome |-> outcome]
    /\ UNCHANGED <<storageVars, call, sqlite>>

\* return await call_next(context)
return_call_next ==
    /\ mw.pc = "call_next"
    /\ mw' = [mw EXCEPT !.pc = "done", !.calls = @ + 1,
                        !.returned = <<call_next(mw.tool, mw.arguments)>>]
    /\ lastOp' = [op |-> "call_next"]
    /\ UNCHANGED <<storageVars, graph, call, sqlite>>

(***************************************************************************)
(* The storage and its tools                                               *)
(***************************************************************************)
Init ==
    /\ memories = <<>>
    /\ relations = <<>>
    /\ deleted_memory_ids = {}
    /\ deleted_relation_ids = {}
    /\ memFile = <<>>
    /\ relFile = <<>>
    /\ graph = EmptyGraph
    /\ mw = IdleMw
    /\ call = NoCall
    /\ sqlite = NoRows
    /\ lastOp = [op |-> "connect"]

SaveMemory == \E m \in SaveInputs : save_memory(m)

UpdateMemory == \E id \in StoreIds, p \in UpdateInputs : update_memory(id, p)

DeleteMemory == \E id \in StoreIds : delete_memory(id)

CreateRelation == \E r \in RelationInputs : create_relation(r)

DeleteRelation == \E id \in RelIds : delete_relation(id)

CreateRelationTool ==
    \E type \in RelTypes : create_relation_handler("a", "b", type)

Compact == compact

Next ==
    \/ SaveMemory
    \/ UpdateMemory
    \/ DeleteMemory
    \/ CreateRelation
    \/ DeleteRelation
    \/ CreateRelationTool
    \/ Compact

Spec == Init /\ [][Next]_vars

(***************************************************************************)
(* The activation service over a populated store                           *)
(***************************************************************************)
\* the store after the memories and relations were saved, the service was
\* built, and some memories were deleted
InitAct ==
    \E rels \in ServiceRelations, deleted \in ServiceDeleted :
        /\ memories = DeletedAll(ServiceMemories, deleted)
        /\ relations = rels
        /\ deleted_memory_ids = deleted
        /\ deleted_relation_ids = {}
        /\ memFile = [i \in 1..Len(ServiceMemories) |-> DumpMemory(ServiceMemories[i])]
                         \o Tombstones(deleted)
        /\ relFile = [i \in 1..Len(rels) |-> DumpRelation(rels[i])]
        /\ graph = _rebuild_index(ServiceMemories, rels, FALSE)
        /\ mw = IdleMw
        /\ call = NoCall
        /\ sqlite = NoRows
        /\ lastOp = [op |-> "connect"]

Activate ==
    \E context \in Contexts, fault \in Faults, now \in Clock :
        LET graph1 == EnsuredGraph(graph, memories, relations, fault)
            candidate_ids == CandidateIds(graph1, context)
        IN \E order \in Orders(candidate_ids),
              queue_order \in Orders(Fetched(memories, candidate_ids)) :
               LET out == activate(graph, memories, relations, context, now, fault,
                                   order, queue_order)
               IN /\ graph' = out.graph
                  /\ lastOp' = [op |-> "activate", context |-> context, fault |-> fault,
                                result |-> out.result, raised |-> out.raised,
                                propagated |-> out.propagated,
                                spread_raised |-> out.spread_raised,
                                scored |-> out.scored, calcs |-> out.calcs]
                  /\ UNCHANGED <<storageVars, mw, call, sqlite>>

\* rebuild_index()
RebuildIndex ==
    \E fails \in BOOLEAN :
        /\ graph' = _rebuild_index(memories, relations, fails)
        /\ lastOp' = [op |-> "rebuild_index"]
        /\ UNCHANGED <<storageVars, mw, call, sqlite>>

NextAct == Activate \/ RebuildIndex

SpecAct == InitAct /\ [][NextAct]_vars

(***************************************************************************)
(* The middleware in front of the tools                                    *)
(***************************************************************************)
OnCallTool ==
    \E tool_name \in ToolNames, arguments \in ToolArguments,
       fastmcp_context \in BOOLEAN :
        on_call_tool(tool_name, arguments, fastmcp_context)

ActivationEnds ==
    /\ mw.pc = "activating"
    /\ \E run \in Runs, set_state_raises \in BOOLEAN, now \in Clock :
        LET context == MiddlewareContext(mw.query[1])
            graph1 == EnsuredGraph(graph, memories, relations, NoFault)
            candidate_ids == CandidateIds(graph1, context)
        IN \E order \in Orders(candidate_ids),
              queue_order \in Orders(Fetched(memories, candidate_ids)) :
               activation_ends(wait_for(run), run.late, set_state_raises, now, order,
                               queue_order)

CallNext == return_call_next

NextMw == OnCallTool \/ ActivationEnds \/ CallNext \/ RebuildIndex

SpecMw == InitAct /\ [][NextMw]_vars

(***************************************************************************)
(* Scheduler                                                               *)
(***************************************************************************)
\* mutant: promote runs before merge
AGENT_ORDER_swapped == <<"decay", "cluster", "promote", "merge", "relations">>

AGENT_ORDER == <<"decay", "cluster", "merge", "promote", "relations">>

\* what agent.run() does: it returns None, an empty list or items, or raises
AgentRuns == {"none", "empty", "items", "raises"}

\* "results if results else []"
AgentResults(name, run) == IF run = "items" THEN <<name>> ELSE <<>>

\* run_agent: the events of one agent and what it hands back
run_agent(name, run) ==
    IF run = "raises"
    THEN [events |-> <<[agent |-> name, event |-> "start"],
                       [agent |-> name, event |-> "raise"]>>,
          raised |-> TRUE, results |-> <<>>]
    ELSE [events |-> <<[agent |-> name, event |-> "start"],
                       [agent |-> name, event |-> "return"]>>,
          raised |-> FALSE, results |-> AgentResults(name, run)]

\* "for agent_name in AGENT_ORDER", from the i-th name on; an exception of
\* run_agent leaves the loop and run_pipeline
RECURSIVE PipelineFrom(_, _, _)
PipelineFrom(i, runs, st) ==
    IF i > Len(AGENT_ORDER) THEN st
    ELSE LET agent_name == AGENT_ORDER[i]
             done == run_agent(agent_name, runs[agent_name])
         IN IF done.raised
            THEN [st EXCEPT !.events = @ \o done.events, !.raised = agent_name]
            ELSE PipelineFrom(i + 1, runs,
                              [st EXCEPT !.events = @ \o done.events,
                                         !.results = Append(@, [agent |-> agent_name,
                                                                results |-> done.results])])

run_pipeline(runs) ==
    PipelineFrom(1, runs, [events |-> <<>>, results |-> <<>>, raised |-> NoStr])

\* one tick of the scheduler
RunPipeline ==
    \E runs \in [{"decay", "cluster", "merge", "promote", "relations"} -> AgentRuns] :
        /\ lastOp' = [op |-> "run_pipeline", runs |-> runs, tick |-> run_pipeline(runs)]
        /\ UNCHANGED <<storageVars, serviceVars>>

NextSched == RunPipeline

SpecSched == Init /\ [][NextSched]_vars

(***************************************************************************)
(* The tools: save_memory, touch_memory, gc, promote_memory                *)
(***************************************************************************)
forget_threshold == 50

promote_threshold == 650

promote_use_count == 5

\* should_forget: the score is below forget_threshold
should_forget(memory, now) ==
    calculate_score(memory.use_count, memory.last_used, memory.strength, now)
        < forget_threshold

\* should_promote: the score is at least promote_threshold, or the memory was
\* used promote_use_count times within promote_time_window (14 days, 4 half-lives)
should_promote(memory, now) ==
    \/ calculate_score(memory.use_count, memory.last_used, memory.strength, now)
           >= promote_threshold
    \/ memory.use_count >= promote_use_count /\ now - memory.created_at <= 4

\* BasicMemoryIntegration.promote_to_obsidian: the note is written and its
\* path returned, or the failure is reported
promote_to_obsidian(memory, written) ==
    IF written THEN [success |-> TRUE, path |-> "vault/" \o memory.id \o ".md"]
    ELSE [success |-> FALSE, path |-> NoStr]

\* what goes wrong in a tool call: nothing, or at the at-th selected memory the
\* vault reports failure, the vault write raises, or the storage write raises
ToolFault(kind, at) == [kind |-> kind, at |-> at]

\* the storage as a tool call sees it
Storage == [memories |-> memories, memFile |-> memFile,
            deleted_memory_ids |-> deleted_memory_ids]

\* update_memory inside a tool call: the fields change in place, then the line
\* is appended, unless the append raises
Updated(st, id, p, appends) ==
    IF ~DictHas(st.memories, id) THEN st
    ELSE LET m == ApplyPartial(DictGet(st.memories, id), p)
         IN [st EXCEPT !.memories = DictSet(@, m),
                       !.memFile = IF appends THEN _append_memory(@, m) ELSE @]

\* delete_memory inside a tool call
Deleted(st, id, appends) ==
    IF ~DictHas(st.memories, id) THEN st
    ELSE [st EXCEPT !.memories = DictDel(@, id),
                    !.deleted_memory_ids = @ \cup {id},
                    !.memFile = IF appends THEN _append_deletion_marker(@, id) ELSE @]

\* a tool call ends: the storage it leaves, within the lines the files may hold
Leaves(st) ==
    /\ Len(st.memFile) + Len(relFile) <= MaxLines
    /\ memories' = st.memories
    /\ memFile' = st.memFile
    /\ deleted_memory_ids' = st.deleted_memory_ids

\* mutant: last_used starts at 0 instead of now
save_memory_handler_epoch(memory_id, now) ==
    /\ ~DictHas(memories, memory_id)
    /\ \A i \in 1..Len(memFile) : memFile[i].id # memory_id
    /\ Leaves(LET m == Memory(memory_id, <<"ts">>, <<>>, <<"React", "TS">>, now, 0, 0, 10)
              IN [Storage EXCEPT !.memories = DictSet(@, m),
                                 !.memFile = _append_memory(@, m)])
    /\ lastOp' = [op |-> "save_memory_handler", memory_id |-> memory_id, now |-> now]
    /\ UNCHANGED <<relations, deleted_relation_ids, relFile, serviceVars>>

\* mutant: the new memory counts its creation as a use
save_memory_handler_used(memory_id, now) ==
    /\ ~DictHas(memories, memory_id)
    /\ \A i \in 1..Len(memFile) : memFile[i].id # memory_id
    /\ Leaves(LET m == Memory(memory_id, <<"ts">>, <<>>, <<"React", "TS">>, now, now, 1, 10)
              IN [Storage EXCEPT !.memories = DictSet(@, m),
                                 !.memFile = _append_memory(@, m)])
    /\ lastOp' = [op |-> "save_memory_handler", memory_id |-> memory_id, now |-> now]
    /\ UNCHANGED <<relations, deleted_relation_ids, relFile, serviceVars>>

\* save_memory_handler: a new active memory under a fresh id
save_memory_handler(memory_id, now) ==
    /\ ~DictHas(memories, memory_id)
    /\ \A i \in 1..Len(memFile) : memFile[i].id # memory_id
    /\ Leaves(LET m == Memory(memory_id, <<"ts">>, <<>>, <<"React", "TS">>, now, now, 0, 10)
              IN [Storage EXCEPT !.memories = DictSet(@, m),
                                 !.memFile = _append_memory(@, m)])
    /\ lastOp' = [op |-> "save_memory_handler", memory_id |-> memory_id, now |-> now]
    /\ UNCHANGED <<relations, deleted_relation_ids, relFile, serviceVars>>

\* mutant: the boost is not capped
new_strength_uncapped(memory, boost_strength) ==
    IF boost_strength THEN memory.strength + 1 ELSE memory.strength

\* touch_memory_handler, lines 46-49: strength + 0.1, at most 2.0
new_strength(memory, boost_strength) ==
    IF boost_strength THEN Min2(20, memory.strength + 1) ELSE memory.strength

\* touch_memory_handler
touch_memory_handler(memory_id, boost_strength, now) ==
    /\ IF get_memory(memories, memory_id) = None
       THEN /\ lastOp' = [op |-> "touch_memory_handler", success |-> FALSE,
                          memory_id |-> memory_id, boost_strength |-> boost_strength,
                          now |-> now]
            /\ UNCHANGED <<memories, memFile, deleted_memory_ids>>
       ELSE LET memory == get_memory(memories, memory_id)[1]
            IN /\ Leaves(Updated(Storage, memory_id,
                                 Partial(now, memory.use_count + 1,
                                         new_strength(memory, boost_strength),
                                         NoStr, NoInt, NoStr),
                                 TRUE))
               /\ lastOp' = [op |-> "touch_memory_handler", success |-> TRUE,
                             memory_id |-> memory_id, boost_strength |-> boost_strength,
                             now |-> now]
    /\ UNCHANGED <<relations, deleted_relation_ids, relFile, serviceVars>>

\* gc_handler, lines 33-50: the active memories to forget, the lowest score
\* first, cut to the limit if there is one
to_remove(mems, limit, now) ==
    LET active == SelectSeq(list_memories(mems), LAMBDA m : m.status = "ACTIVE")
        found == SelectSeq(active, LAMBDA m : should_forget(m, now))
        sorted == ranked_scores([i \in 1..Len(found) |->
                      [id |-> found[i].id,
                       final_score |-> 0 - calculate_score(found[i].use_count,
                                               found[i].last_used, found[i].strength, now)]])
    IN IF limit # NoInt /\ limit # 0 /\ Len(sorted) > limit
       THEN SubSeq(sorted, 1, limit) ELSE sorted

\* gc_handler, lines 58-71: from the i-th memory on; a write that raises
\* ends the call
RECURSIVE GcLoop(_, _, _, _, _)
GcLoop(run, selected, i, archive_instead, fault) ==
    IF run.raised \/ i > Len(selected) THEN run
    ELSE LET id == selected[i].id
             appends == fault # ToolFault("write raises", i)
             st == IF archive_instead
                   THEN Updated(run.st, id, Partial(NoInt, NoInt, NoInt, "ARCHIVED",
                                                    NoInt, NoStr), appends)
                   ELSE Deleted(run.st, id, appends)
         IN GcLoop([st |-> st, memory_ids |-> Append(run.memory_ids, id),
                    done |-> IF appends THEN Append(run.done, id) ELSE run.done,
                    raised |-> ~appends],
                   selected, i + 1, archive_instead, fault)

\* gc_handler
gc_handler(dry_run, archive_instead, limit, now, fault) ==
    LET selected == to_remove(memories, limit, now)
        run == IF dry_run
               THEN [st |-> Storage,
                     memory_ids |-> [i \in 1..Len(selected) |-> selected[i].id],
                     done |-> <<>>, raised |-> FALSE]
               ELSE GcLoop([st |-> Storage, memory_ids |-> <<>>, done |-> <<>>,
                            raised |-> FALSE], selected, 1, archive_instead, fault)
    IN /\ Leaves(run.st)
       /\ lastOp' = [op |-> "gc_handler", dry_run |-> dry_run,
                     archive_instead |-> archive_instead, limit |-> limit, now |-> now,
                     selected |-> [i \in 1..Len(selected) |-> selected[i].id],
                     memory_ids |-> run.memory_ids, done |-> run.done,
                     raised |-> run.raised]
       /\ UNCHANGED <<relations, deleted_relation_ids, relFile, serviceVars>>

\* promote_handler, lines 36-95: the candidates, the best score first, or the
\* message of the failure
Candidates(mems, memory_id, auto_detect, force, now) ==
    IF memory_id # NoStr
    THEN IF get_memory(mems, memory_id) = None
         THEN [message |-> "Memory not found", candidates |-> <<>>]
         ELSE LET memory == get_memory(mems, memory_id)[1]
              IN IF memory.status = "PROMOTED"
                 THEN [message |-> "Memory already promoted", candidates |-> <<>>]
                 ELSE IF ~should_promote(memory, now) /\ ~force
                 THEN [message |-> "Memory does not meet promotion criteria",
                       candidates |-> <<>>]
                 ELSE [message |-> NoStr, candidates |-> <<memory>>]
    ELSE IF auto_detect
    THEN LET active == SelectSeq(list_memories(mems), LAMBDA m : m.status = "ACTIVE")
             found == SelectSeq(active, LAMBDA m : should_promote(m, now))
             sorted == ranked_scores([i \in 1..Len(found) |->
                           [memory |-> found[i],
                            final_score |-> calculate_score(found[i].use_count,
                                                found[i].last_used, found[i].strength, now)]])
         IN [message |-> NoStr,
             candidates |-> [i \in 1..Len(sorted) |-> sorted[i].memory]]
    ELSE [message |-> "Must specify memory_id or set auto_detect=true",
          candidates |-> <<>>]

\* mutant: the memory is marked whatever the vault reported
MarkPromoted_always(run, memory, result, now, appends) ==
    [run EXCEPT !.st = Updated(@, memory.id,
                               Partial(NoInt, NoInt, NoInt, "PROMOTED", now,
                                       "vault/" \o memory.id \o ".md"), appends),
                !.promoted_ids = IF appends THEN Append(@, memory.id) ELSE @,
                !.raised = ~appends]

\* promote_handler, lines 112-120: "if result["success"]"
MarkPromoted(run, memory, result, now, appends) ==
    IF result.success
    THEN [run EXCEPT !.st = Updated(@, memory.id,
                                    Partial(NoInt, NoInt, NoInt, "PROMOTED", now,
                                            result.path), appends),
                     !.promoted_ids = IF appends THEN Append(@, memory.id) ELSE @,
                     !.raised = ~appends]
    ELSE run

\* promote_handler, lines 101-120: from the i-th candidate on
RECURSIVE PromoteLoop(_, _, _, _, _, _)
PromoteLoop(run, candidates, i, target, now, fault) ==
    IF run.raised \/ run.message # NoStr \/ i > Len(candidates) THEN run
    ELSE IF target # "obsidian" THEN [run EXCEPT !.message = "Unknown target"]
    ELSE IF fault = ToolFault("vault raises", i) THEN [run EXCEPT !.raised = TRUE]
    ELSE LET memory == candidates[i]
             result == promote_to_obsidian(memory, fault # ToolFault("vault failed", i))
         IN PromoteLoop(MarkPromoted(run, memory, result, now,
                                     fault # ToolFault("write raises", i)),
                        candidates, i + 1, target, now, fault)

\* mutant: a dry run promotes too
Performs_always(dry_run, candidates) == candidates # <<>>

\* promote_handler, line 98: "if not dry_run and candidates"
Performs(dry_run, candidates) == ~dry_run /\ candidates # <<>>

\* promote_handler
promote_handler(memory_id, auto_detect, dry_run, force, target, now, fault) ==
    LET found == Candidates(memories, memory_id, auto_detect, force, now)
        start == [st |-> Storage, promoted_ids |-> <<>>, raised |-> FALSE,
                  message |-> found.message]
        run == IF Performs(dry_run, found.candidates)
               THEN PromoteLoop(start, found.candidates, 1, target, now, fault)
               ELSE start
    IN /\ Leaves(run.st)
       /\ lastOp' = [op |-> "promote_handler", memory_id |-> memory_id,
                     dry_run |-> dry_run, now |-> now, fault |-> fault,
                     success |-> ~run.raised /\ run.message = NoStr,
                     raised |-> run.raised,
                     candidates |-> [i \in 1..Len(found.candidates) |->
                                        found.candidates[i].id],
                     promoted_ids |-> run.promoted_ids]
       /\ UNCHANGED <<relations, deleted_relation_ids, relFile, serviceVars>>

\* RelationshipDiscovery.run: a "related" relation for a pair of active
\* memories that share at least min_shared_entities (2) entities and have no
\* relation yet; a dry run reports the pairs and creates nothing
SharedEntities(m1, m2) == Range(m1.entities) \cap Range(m2.entities)

DiscoveredPairs ==
    {<<i, j>> \in (1..Len(memories)) \X (1..Len(memories)) :
        /\ i < j
        /\ memories[i].status = "ACTIVE" /\ memories[j].status = "ACTIVE"
        /\ Cardinality(SharedEntities(memories[i], memories[j])) >= 2
        /\ \A k \in 1..Len(relations) :
               {relations[k].from_memory_id, relations[k].to_memory_id}
                   # {memories[i].id, memories[j].id}}

relationship_discovery(dry_run, id) ==
    /\ IF dry_run \/ DiscoveredPairs = {}
       THEN UNCHANGED <<relations, relFile>>
       ELSE LET pair == CHOOSE p \in DiscoveredPairs : TRUE
                r == Relation(id, memories[pair[1]].id, memories[pair[2]].id, "related")
            IN /\ Room
               /\ \A k \in 1..Len(relFile) : relFile[k].id # id
               /\ relations' = DictSet(relations, r)
               /\ relFile' = _append_relation(relFile, r)
    /\ lastOp' = [op |-> "relationship_discovery", dry_run |-> dry_run,
                  results |-> {<<memories[p[1]].id, memories[p[2]].id>> : p \in DiscoveredPairs}]
    /\ UNCHANGED <<memories, deleted_memory_ids, deleted_relation_ids, memFile, serviceVars>>

(***************************************************************************)
(* The tools over the store that two saves, two touches and a compaction   *)
(* have left                                                               *)
(***************************************************************************)
ToolClock == {5}

Nows ==
    {now \in ToolClock :
        \A i \in 1..Len(memories) : /\ memories[i].last_used <= now
                                    /\ memories[i].created_at <= now}

\* a and b saved at 0; b touched once at 0; a touched ten times with
\* boost_strength, the last time at 5
ToolMemories ==
    <<Memory("a", <<"ts">>, <<>>, <<"React", "TS">>, 0, 5, 10, 20),
      Memory("b", <<"ts">>, <<>>, <<"React", "TS">>, 0, 0, 1, 10)>>

InitTools ==
    /\ memories = ToolMemories
    /\ memFile = [i \in 1..Len(ToolMemories) |-> DumpMemory(ToolMemories[i])]
    /\ relations = <<>>
    /\ relFile = <<>>
    /\ deleted_memory_ids = {}
    /\ deleted_relation_ids = {}
    /\ lastOp = [op |-> "connect"]
    /\ graph = EmptyGraph
    /\ mw = IdleMw
    /\ call = NoCall
    /\ sqlite = NoRows

\* uuid4 of save_memory
FreshIds == {"c"}

ToolFaults ==
    {ToolFault("none", 0), ToolFault("vault failed", 1), ToolFault("vault raises", 1),
     ToolFault("write raises", 1)}

SaveTool == \E id \in FreshIds, now \in Nows : save_memory_handler(id, now)

TouchTool ==
    \E id \in StoreIds, boost_strength \in BOOLEAN, now \in Nows :
        touch_memory_handler(id, boost_strength, now)

GcTool ==
    \E dry_run \in BOOLEAN, archive_instead \in BOOLEAN, limit \in {NoInt, 0, 1},
       now \in Nows, fault \in {f \in ToolFaults : f.kind \in {"none", "write raises"}} :
        gc_handler(dry_run, archive_instead, limit, now, fault)

\* the arguments of promote_memory: a memory id with or without force, or no
\* id with or without auto_detect
PromoteArguments ==
    {[memory_id |-> id, auto_detect |-> FALSE, force |-> force] :
        id \in StoreIds, force \in BOOLEAN}
    \cup {[memory_id |-> NoStr, auto_detect |-> auto_detect, force |-> FALSE] :
              auto_detect \in BOOLEAN}

\* the target with what goes wrong: nothing can when the target is unknown
PromoteTargets ==
    {[target |-> "obsidian", fault |-> fault] :
        fault \in {f \in ToolFaults : f.kind # "write raises"}}
    \cup {[target |-> "files", fault |-> ToolFault("none", 0)]}

PromoteTool ==
    \E arguments \in PromoteArguments, dry_run \in BOOLEAN, to \in PromoteTargets, now \in Nows :
        promote_handler(arguments.memory_id, arguments.auto_detect, dry_run,
                        arguments.force, to.target, now, to.fault)

DiscoverRelations == \E dry_run \in BOOLEAN : relationship_discovery(dry_run, "r1")

NextTools == SaveTool \/ TouchTool \/ GcTool \/ PromoteTool \/ DiscoverRelations

SpecTools == InitTools /\ [][NextTools]_vars

(***************************************************************************)
(* get_storage_stats over files that many updates have grown               *)
(***************************************************************************)
MaxStatLines == 103

\* mutant: a saving of exactly 100 lines asks for compaction too
should_compact_from(memories_savings, relations_savings) ==
    memories_savings >= 100 \/ relations_savings >= 100

\* get_storage_stats, lines 585-587
should_compact(memories_savings, relations_savings) ==
    memories_savings > 100 \/ relations_savings > 100

get_storage_stats(mems, rels, mfile, rfile) ==
    [memories |-> [active |-> Len(mems), total_lines |-> Len(mfile),
                   compaction_savings |-> Len(mfile) - Len(mems)],
     relations |-> [active |-> Len(rels), total_lines |-> Len(rfile),
                    compaction_savings |-> Len(rfile) - Len(rels)],
     should_compact |-> should_compact(Len(mfile) - Len(mems), Len(rfile) - Len(rels))]

GetStorageStats ==
    /\ lastOp' = [op |-> "get_storage_stats",
                  stats |-> get_storage_stats(memories, relations, memFile, relFile)]
    /\ UNCHANGED <<storageVars, serviceVars>>

\* update_memory on the grown file
StatsUpdate ==
    \E id \in StoreIds, p \in UpdateInputs :
        /\ Len(memFile) < MaxStatLines
        /\ DictHas(memories, id)
        /\ memories' = Updated(Storage, id, p, TRUE).memories
        /\ memFile' = Updated(Storage, id, p, TRUE).memFile
        /\ lastOp' = [op |-> "update_memory", result |-> TRUE, memory_id |-> id,
                      partial |-> p]
        /\ UNCHANGED <<relations, deleted_memory_ids, deleted_relation_ids, relFile,
                       serviceVars>>

\* one memory saved once and updated n - 1 times, one relation created once
\* and, deleted and created again, written on k lines
InitStats ==
    \E n \in 100..102, k \in {1, 103} :
        /\ memories = <<Memory("a", <<"ts">>, <<>>, <<>>, 0, 0, 0, 10)>>
        /\ memFile = [i \in 1..n |-> DumpMemory(memories[1])]
        /\ relations = <<Relation("r1", "a", "b", "related")>>
        /\ relFile = [i \in 1..k |->
                          IF i % 2 = 1 THEN DumpRelation(relations[1])
                          ELSE DeletionMarker("r1")]
        /\ deleted_memory_ids = {}
        /\ deleted_relation_ids = IF k > 1 THEN {"r1"} ELSE {}
        /\ lastOp = [op |-> "connect"]
        /\ graph = EmptyGraph
        /\ mw = IdleMw
        /\ call = NoCall
        /\ sqlite = NoRows

NextStats == GetStorageStats \/ StatsUpdate \/ Compact

SpecStats == InitStats /\ [][NextStats]_vars

(***************************************************************************)
(* search_unified: merge, rank and deduplicate                             *)
(***************************************************************************)
MaxResults == 3

UnifiedSearchResult(content, source, score) ==
    [content |-> content, source |-> source, score |-> score]

\* mutant: the whole content is the key
dedup_key_exact(content) == content

\* result.content[:100].lower().strip()
dedup_key(content) ==
    strip([i \in 1..Min2(100, Len(content)) |-> lower(content[i])])

\* results.sort(key=lambda r: r.score, reverse=True)
sort_by_score(results) ==
    LET ranked == ranked_scores([i \in 1..Len(results) |->
                      [result |-> results[i], final_score |-> results[i].score]])
    IN [i \in 1..Len(ranked) |-> ranked[i].result]

\* the loop over the sorted results, from the i-th on
RECURSIVE Deduplicate(_, _, _, _, _)
Deduplicate(results, i, seen_content, deduplicated, limit) ==
    IF i > Len(results) THEN deduplicated
    ELSE IF dedup_key(results[i].content) \in seen_content
    THEN Deduplicate(results, i + 1, seen_content, deduplicated, limit)
    ELSE IF Len(deduplicated) + 1 >= limit THEN Append(deduplicated, results[i])
    ELSE Deduplicate(results, i + 1,
                     seen_content \cup {dedup_key(results[i].content)},
                     Append(deduplicated, results[i]), limit)

\* search_unified, lines 192-210, over the results of both searches
search_unified(results, limit) == Deduplicate(sort_by_score(results), 1, {}, <<>>, limit)

\* a text of more than 100 characters that ends in last
LongText(last) == [i \in 1..100 |-> "x"] \o <<last>>

\* what the two searches may find; each search returns at most 2 * limit
FoundResults ==
    {UnifiedSearchResult(<<"TS">>, "stm", 700),
     UnifiedSearchResult(<<" ", "ts", " ">>, "ltm", 350),
     UnifiedSearchResult(<<"ts">>, "ltm", 700),
     UnifiedSearchResult(<<"db">>, "stm", 500),
     UnifiedSearchResult(LongText("TS"), "stm", 200),
     UnifiedSearchResult(LongText("db"), "ltm", 350)}

SearchUnified ==
    \E limit \in 0..2 :
        \E results \in UNION {[1..n -> FoundResults] : n \in 0..Min2(MaxResults, 4 * limit)} :
            /\ lastOp' = [op |-> "search_unified", results |-> results, limit |-> limit,
                          returned |-> search_unified(results, limit)]
            /\ UNCHANGED <<storageVars, serviceVars>>

NextSearch == SearchUnified

SpecSearch == Init /\ [][NextSearch]_vars

(***************************************************************************)
(* Scheduler.post_save_check                                               *)
(***************************************************************************)
DEFAULT_URGENT_THRESHOLD == 100

\* scheduler.calculate_score(memory_id): 1.0 for a memory that is not stored
memory_score(mems, memory_id, now) ==
    IF get_memory(mems, memory_id) = None THEN SCALE
    ELSE LET memory == get_memory(mems, memory_id)[1]
         IN calculate_score(memory.use_count, memory.last_used, memory.strength, now)

\* mutant: a dry run reports the memory as flagged
_handle_urgent_memory_live(memory_id, score, dry_run) ==
    [memory_id |-> memory_id, score |-> score, dry_run |-> dry_run,
     action |-> "flagged_urgent"]

_handle_urgent_memory(memory_id, score, dry_run) ==
    IF dry_run
    THEN [memory_id |-> memory_id, score |-> score, dry_run |-> TRUE,
          action |-> "would_flag_urgent"]
    ELSE [memory_id |-> memory_id, score |-> score, dry_run |-> FALSE,
          action |-> "flagged_urgent"]

\* post_save_check: None, or <<descriptor>>
post_save_check(mems, memory_id, dry_run, now) ==
    LET score == memory_score(mems, memory_id, now)
    IN IF score >= DEFAULT_URGENT_THRESHOLD THEN None
       ELSE <<_handle_urgent_memory(memory_id, score, dry_run)>>

PostSaveCheck(memory_id, dry_run, now) ==
    /\ lastOp' = [op |-> "post_save_check", memory_id |-> memory_id,
                  dry_run |-> dry_run, now |-> now,
                  result |-> post_save_check(memories, memory_id, dry_run, now)]
    /\ UNCHANGED <<storageVars, serviceVars>>

(***************************************************************************)
(* The tools under a clock that moves, over one memory                     *)
(***************************************************************************)
TimeClock == {0, 1, 5}

\* time.time() does not go back: not before the time of the last call
TimeNows == {now \in TimeClock : "now" \in DOMAIN lastOp => lastOp.now <= now}

SaveAt == \E id \in FreshIds \cup {"d"}, now \in TimeNows : save_memory_handler(id, now)

TouchAt ==
    \E id \in FreshIds, boost_strength \in BOOLEAN, now \in TimeNows :
        touch_memory_handler(id, boost_strength, now)

GcAt ==
    \E archive_instead \in BOOLEAN, now \in TimeNows :
        gc_handler(FALSE, archive_instead, NoInt, now, ToolFault("none", 0))

PromoteAt ==
    \E force \in BOOLEAN, now \in TimeNows :
        promote_handler(NoStr, TRUE, FALSE, force, "obsidian", now, ToolFault("none", 0))

CheckAt ==
    \E id \in FreshIds \cup {"d"}, dry_run \in BOOLEAN, now \in TimeNows :
        PostSaveCheck(id, dry_run, now)

NextTime == SaveAt \/ TouchAt \/ GcAt \/ PromoteAt \/ CheckAt

SpecTime == Init /\ [][NextTime]_vars

(***************************************************************************)
(* connect() over files that a crash or a foreign writer has left          *)
(***************************************************************************)
MaxLoadLines == 3

\* a line that json.loads rejects: the first characters of a record
Torn == [text |-> "{\"id\": \"a"]

\* json.loads(line) raises JSONDecodeError
Rejected(line) == "text" \in DOMAIN line

\* the first line of the file that json.loads rejects, 0 if there is none
FirstRejected(file) ==
    IF \E i \in 1..Len(file) : Rejected(file[i])
    THEN CHOOSE i \in 1..Len(file) :
             Rejected(file[i]) /\ \A j \in 1..(i - 1) : ~Rejected(file[j])
    ELSE 0

\* the lines the loop of connect has read when it ends or raises
ReadLines(file) ==
    IF FirstRejected(file) = 0 THEN file ELSE SubSeq(file, 1, FirstRejected(file) - 1)

\* the exception of json.loads(line): lineno counts within the text it was
\* given, which is the one line
JSONDecodeError == [type |-> "JSONDecodeError", lineno |-> 1]

\* connect(), lines 48-89: the exception of json.loads leaves the loop and
\* connect; the relations are read only after all memories are
connect_files ==
    LET m == LoadMemories(ReadLines(memFile), 1, <<>>, {})
        r == IF FirstRejected(memFile) # 0 THEN [map |-> <<>>, deleted |-> {}]
             ELSE LoadRelations(ReadLines(relFile), 1, <<>>, {})
        raised == IF FirstRejected(memFile) # 0 THEN "memories.jsonl"
                  ELSE IF FirstRejected(relFile) # 0 THEN "relations.jsonl"
                  ELSE NoStr
    IN /\ lastOp.op = "__init__"
       /\ memories' = m.map
       /\ deleted_memory_ids' = m.deleted
       /\ relations' = r.map
       /\ deleted_relation_ids' = r.deleted
       /\ lastOp' = [op |-> "connect", raised |-> raised,
                     error |-> IF raised = NoStr THEN None ELSE <<JSONDecodeError>>,
                     _connected |-> raised = NoStr]
       /\ UNCHANGED <<memFile, relFile, serviceVars>>

\* the lines a memories file may hold
MemoryLines ==
    {DumpMemory(mem) : mem \in SaveInputs} \cup {DeletionMarker("a"), Torn}

RelationLines == {DumpRelation(Relation("r1", "a", "b", "related")), Torn}

\* the files with at most n lines
FilesOf(lines, n) == UNION {[1..k -> lines] : k \in 0..n}

InitLoad ==
    /\ memFile \in FilesOf(MemoryLines, MaxLoadLines)
    /\ relFile \in FilesOf(RelationLines, MaxLoadLines - 1)
    /\ memories = <<>>
    /\ relations = <<>>
    /\ deleted_memory_ids = {}
    /\ deleted_relation_ids = {}
    /\ lastOp = [op |-> "__init__"]
    /\ graph = EmptyGraph
    /\ mw = IdleMw
    /\ call = NoCall
    /\ sqlite = NoRows

Connect == connect_files

NextLoad == Connect

SpecLoad == InitLoad /\ [][NextLoad]_vars

(***************************************************************************)
(* activate, one read of self.graph at a time, with rebuild_index called    *)
(* from another thread                                                     *)
(***************************************************************************)
\* the call reads self.graph: the instance joins those the call has used
Reads(c, g) == [c EXCEPT !.graphs = @ \cup {g}]

\* activate, lines 96-97: "if self.graph is None or self.graph.memory_count
\* == 0: self._rebuild_index()"
BeginCall ==
    \E context \in Contexts :
        LET graph1 == EnsuredGraph(graph, memories, relations, NoFault)
        IN /\ call.pc \in {"idle", "done"}
           /\ graph' = graph1
           /\ call' = [pc |-> "find_by_keywords", context |-> context,
                       graphs |-> {graph1}, candidate_ids |-> {}]
           /\ lastOp' = [op |-> "activate_begins"]
           /\ UNCHANGED <<storageVars, mw, sqlite>>

\* _find_candidates: self.graph.find_by_keywords, find_by_entities and
\* find_by_tags, each on the self.graph of its moment
FindStep ==
    LET keywords == KeywordsOf(call.context)
        lowered == [i \in 1..Len(keywords) |-> lower(keywords[i])]
    IN /\ call.pc \in {"find_by_keywords", "find_by_entities", "find_by_tags"}
       /\ call' = [Reads(call, graph) EXCEPT
                       !.pc = CASE call.pc = "find_by_keywords" -> "find_by_entities"
                                [] call.pc = "find_by_entities" -> "find_by_tags"
                                [] OTHER -> "score",
                       !.candidate_ids =
                           @ \cup CASE call.pc = "find_by_keywords" ->
                                       find_by_keywords(graph, keywords)
                                  [] call.pc = "find_by_entities" ->
                                       find_by_entities(graph, lowered)
                                  [] OTHER -> find_by_tags(graph, lowered)]
       /\ lastOp' = [op |-> call.pc]
       /\ UNCHANGED <<storageVars, graph, mw, sqlite>>

\* what a call that has ended holds
Ended(c, result) ==
    [pc |-> "done", context |-> c.context, graphs |-> c.graphs, result |-> result]

\* activate, lines 109-167: the candidates are fetched and scored, and the
\* queue of the spreading step is filled
ScoreStep ==
    LET candidate_ids == call.candidate_ids \ call.context.already_activated
    IN /\ call.pc = "score"
       /\ IF candidate_ids = {}
          THEN call' = Ended(call, EmptyResult("full"))
          ELSE \E order \in Orders(candidate_ids),
                  queue_order \in Orders(Fetched(memories, candidate_ids)) :
                   LET memory_map == SelectSeq(order,
                                               LAMBDA id : get_memory(memories, id) # None)
                       direct_scores == ScoreDirect(memories, memory_map,
                                                    KeywordsOf(call.context), 1)
                   IN call' = [pc |-> IF call.context.enable_spreading
                                      THEN "spread" ELSE "rank",
                               context |-> call.context, graphs |-> call.graphs,
                               total_candidates |-> Cardinality(candidate_ids),
                               direct_matches |-> Range(memory_map),
                               st |-> _apply_spreading_activation(EmptyGraph, memories,
                                          Range(memory_map), direct_scores, 1, 0,
                                          <<>>),
                               queue |-> [i \in 1..Len(queue_order) |->
                                             [id |-> queue_order[i], hop |-> 0,
                                              score |-> DictGet(direct_scores,
                                                            queue_order[i]).final_score]]]
       /\ lastOp' = [op |-> "score"]
       /\ UNCHANGED <<storageVars, graph, mw, sqlite>>

\* _apply_spreading_activation, one turn of "while queue": the related ids
\* come from self.graph.get_related_memories of this turn
SpreadStep ==
    /\ call.pc = "spread"
    /\ IF call.queue = <<>>
       THEN call' = [call EXCEPT !.pc = "rank"]
       ELSE LET head == Head(call.queue)
                popped == [call.st EXCEPT !.queue = <<>>]
                st == VisitRelated(graph, memories, 1, 0, popped, head,
                                   get_related_memories(graph, head.id), 1)
            IN IF head.hop >= max_hops
               THEN call' = [call EXCEPT !.queue = Tail(@)]
               ELSE call' = [Reads(call, graph) EXCEPT
                                !.st = st, !.queue = Tail(@) \o st.queue]
    /\ lastOp' = [op |-> "spread"]
    /\ UNCHANGED <<storageVars, graph, mw, sqlite>>

\* activate, lines 170-196: rank, filter, cut and return
RankStep ==
    /\ call.pc = "rank"
    /\ LET top_k == TopK(Filtered(ranked_scores(call.st.scores),
                                  call.context.activation_threshold),
                         call.context.max_memories)
       IN call' = Ended(call, ActivationResult([i \in 1..Len(top_k) |-> top_k[i].id],
                                               top_k, call.direct_matches,
                                               call.st.spread, call.total_candidates,
                                               "full"))
    /\ lastOp' = [op |-> "activate_returns"]
    /\ UNCHANGED <<storageVars, graph, mw, sqlite>>

\* rebuild_index() in another thread: the graph is built, then assigned
RebuildConcurrently ==
    /\ graph' = _rebuild_index(memories, relations, FALSE)
    /\ graph' # graph
    /\ lastOp' = [op |-> "rebuild_index"]
    /\ UNCHANGED <<storageVars, mw, call, sqlite>>

NextConc ==
    BeginCall \/ FindStep \/ ScoreStep \/ SpreadStep \/ RankStep \/ RebuildConcurrently

SpecConc == InitAct /\ [][NextConc]_vars

(***************************************************************************)
(* build_activation_graph over snapshots of the store                      *)
(***************************************************************************)
\* the snapshots: any of the memories, with relations that may point to
\* memories the snapshot does not hold
InitGraph ==
    \E kept \in SUBSET MemIds, rels \in ServiceRelations :
        /\ memories = SelectSeq(ServiceMemories, LAMBDA m : m.id \in kept)
        /\ relations = rels
        /\ deleted_memory_ids = {}
        /\ deleted_relation_ids = {}
        /\ memFile = [i \in 1..Len(memories) |-> DumpMemory(memories[i])]
        /\ relFile = [i \in 1..Len(rels) |-> DumpRelation(rels[i])]
        /\ graph = EmptyGraph
        /\ mw = IdleMw
        /\ call = NoCall
        /\ sqlite = NoRows
        /\ lastOp = [op |-> "connect"]

\* the terms a lookup is made with
Lookups == {<<>>, <<"ts">>, <<"TS">>, <<"react", "db">>, <<"React", "ts">>}

\* build_activation_graph(memories, relations), and the lookups on the graph
BuildGraph ==
    \E terms \in Lookups :
        /\ graph' = build_activation_graph(memories, relations)
        /\ lastOp' = [op |-> "build_activation_graph", terms |-> terms,
                      find_by_tags |-> find_by_tags(graph', terms),
                      find_by_entities |-> find_by_entities(graph', terms),
                      get_related_memories |->
                          [id \in MemIds |-> get_related_memories(graph', id)]]
        /\ UNCHANGED <<storageVars, mw, call, sqlite>>

NextGraph == BuildGraph

SpecGraph == InitGraph /\ [][NextGraph]_vars

(***************************************************************************)
(* cluster_memories_simple                                                 *)
(***************************************************************************)
\* m.embed is None
NoEmbed == <<>>

\* the memories to cluster: embeddings of two whole-numbered components
\* a.c = b.c = 0.707, a.d = 0.8, b.d = 0.6, c.d = 0.990, a.b = 0
ClusterPool ==
    { [id |-> "a", embed |-> <<1, 0>>], [id |-> "b", embed |-> <<0, 1>>],
      [id |-> "c", embed |-> <<1, 1>>], [id |-> "d", embed |-> <<4, 3>>],
      [id |-> "n", embed |-> NoEmbed] }

Dot(vec1, vec2) == vec1[1] * vec2[1] + vec1[2] * vec2[2]

\* cosine_similarity(vec1, vec2) >= threshold, the threshold in hundredths:
\* a vector of magnitude 0 has similarity 0
similar(vec1, vec2, threshold) ==
    IF Dot(vec1, vec1) = 0 \/ Dot(vec2, vec2) = 0 THEN threshold <= 0
    ELSE IF Dot(vec1, vec2) < 0 THEN FALSE
    ELSE Dot(vec1, vec2) * Dot(vec1, vec2) * 100 * 100
             >= threshold * threshold * Dot(vec1, vec1) * Dot(vec2, vec2)

\* the indexes of the clusters that hold a memory similar to this one
similar_clusters(clusters, memory, threshold) ==
    {idx \in 1..Len(clusters) :
        \E k \in 1..Len(clusters[idx]) :
            similar(memory.embed, clusters[idx][k].embed, threshold)}

RECURSIVE Extended(_, _, _)
\* clusters[target_idx].extend(clusters[idx]) for the other similar clusters,
\* the highest index first
Extended(target, clusters, others) ==
    IF others = {} THEN target
    ELSE LET idx == CHOOSE i \in others : \A j \in others : j <= i
         IN Extended(target \o clusters[idx], clusters, others \ {idx})

\* mutant: the memory joins the first similar cluster and nothing is merged
Joined_first(clusters, memory, threshold) ==
    LET similar_idx == similar_clusters(clusters, memory, threshold)
        target_idx == CHOOSE i \in similar_idx : \A j \in similar_idx : i <= j
    IN IF similar_idx = {} THEN Append(clusters, <<memory>>)
       ELSE [clusters EXCEPT ![target_idx] = Append(@, memory)]

\* one turn of "for memory in memories_with_embed": a new cluster, or the
\* first similar cluster takes the memory and the other similar clusters
Joined(clusters, memory, threshold) ==
    LET similar_idx == similar_clusters(clusters, memory, threshold)
        target_idx == CHOOSE i \in similar_idx : \A j \in similar_idx : i <= j
        others == similar_idx \ {target_idx}
        merged == [clusters EXCEPT
                      ![target_idx] = Extended(Append(@, memory), clusters, others)]
    IN IF similar_idx = {} THEN Append(clusters, <<memory>>)
       ELSE [i \in 1..(Len(clusters) - Cardinality(others)) |->
                merged[CHOOSE j \in 1..Len(clusters) :
                           /\ j \notin others
                           /\ Cardinality({l \in 1..j : l \notin others}) = i]]

RECURSIVE Grouped(_, _, _)
Grouped(memories_with_embed, clusters, threshold) ==
    IF memories_with_embed = <<>> THEN clusters
    ELSE Grouped(Tail(memories_with_embed),
                 Joined(clusters, Head(memories_with_embed), threshold), threshold)

\* ClusterConfig
ClusterConfig(threshold, min_cluster_size, max_cluster_size) ==
    [threshold |-> threshold, min_cluster_size |-> min_cluster_size,
     max_cluster_size |-> max_cluster_size]

\* cluster_memories_simple: the memories of each returned cluster
cluster_memories_simple(mems, config) ==
    LET memories_with_embed == SelectSeq(mems, LAMBDA m : m.embed # NoEmbed)
        clusters == Grouped(memories_with_embed, <<>>, config.threshold)
        kept == SelectSeq(clusters, LAMBDA c : Len(c) >= config.min_cluster_size)
    IN [i \in 1..Len(kept) |->
           SubSeq(kept[i], 1, Min2(Len(kept[i]), config.max_cluster_size))]

\* the inputs: no memory, memories none of which is similar to another, and
\* all of them
ClusterPools ==
    {{}, {x \in ClusterPool : x.id \in {"a", "b", "n"}}, ClusterPool}

ClusterConfigs ==
    {ClusterConfig(threshold, min_cluster_size, max_cluster_size) :
        threshold \in {70, 83}, min_cluster_size \in {2, 3},
        max_cluster_size \in {2, 12}}

ClusterMemories ==
    \E pool \in ClusterPools, config \in ClusterConfigs :
        \E mems \in Orders(pool) :
            /\ lastOp' = [op |-> "cluster_memories_simple", memories |-> mems,
                          config |-> config,
                          clusters |-> cluster_memories_simple(mems, config)]
            /\ UNCHANGED <<storageVars, serviceVars>>

NextCluster == ClusterMemories

SpecCluster == Init /\ [][NextCluster]_vars

(***************************************************************************)
(* Activation over memories that gc has archived or promote_memory promoted *)
(***************************************************************************)
\* db.update_memory(memory_id, status=...), as gc with archive_instead and
\* promote_memory call it
Retire ==
    \E id \in {"a", "c"}, status \in {"ARCHIVED", "PROMOTED"} :
        /\ DictHas(memories, id)
        /\ DictGet(memories, id).status = "ACTIVE"
        /\ LET st == Updated(Storage, id,
                             Partial(NoInt, NoInt, NoInt, status,
                                     IF status = "PROMOTED" THEN 1 ELSE NoInt,
                                     IF status = "PROMOTED" THEN "vault/note.md" ELSE NoStr),
                             TRUE)
           IN /\ memories' = st.memories
              /\ memFile' = st.memFile
        /\ lastOp' = [op |-> "update_memory", memory_id |-> id]
        /\ UNCHANGED <<relations, deleted_memory_ids, deleted_relation_ids, relFile,
                       serviceVars>>

\* a query for a, a query for c, with and without a threshold
StatusContexts ==
    { ActivationContext(<<"TS">>, <<>>, {}, 10, 0, TRUE),
      ActivationContext(<<>>, <<"db">>, {}, 10, 300, TRUE) }

ActivateRetired ==
    \E context \in StatusContexts :
        LET graph1 == EnsuredGraph(graph, memories, relations, NoFault)
            candidate_ids == CandidateIds(graph1, context)
        IN \E order \in Orders(candidate_ids),
              queue_order \in Orders(Fetched(memories, candidate_ids)) :
               LET out == activate(graph, memories, relations, context, 1, NoFault,
                                   order, queue_order)
               IN /\ graph' = out.graph
                  /\ lastOp' = [op |-> "activate", context |-> context,
                                fault |-> NoFault, result |-> out.result,
                                raised |-> out.raised, scored |-> out.scored]
                  /\ UNCHANGED <<storageVars, mw, call, sqlite>>

NextStatus == Retire \/ RebuildIndex \/ ActivateRetired

SpecStatus == InitAct /\ [][NextStatus]_vars

(***************************************************************************)
(* search_memory                                                           *)
(***************************************************************************)
\* JSONLStorage.search_memories(tags, status=ACTIVE, window_days, limit): the
\* window counts half-lives; the most recently used come first
search_memories(mems, tags, window_days, limit, now) ==
    LET active == SelectSeq(mems, LAMBDA x : x.status = "ACTIVE")
        recent == IF window_days = NoInt THEN active
                  ELSE SelectSeq(active, LAMBDA x : x.last_used >= now - window_days)
        tagged == IF tags = <<>> THEN recent
                  ELSE SelectSeq(recent, LAMBDA x : Range(tags) \cap Range(x.tags) # {})
        sorted == SortedByLastUsed(tagged)
    IN SubSeq(sorted, 1, Min2(Len(sorted), limit))

\* the query is a part of the content, both in lower case
InContent(query, content) ==
    \E i \in 1..Len(content) :
        /\ i + Len(query) - 1 <= Len(content)
        /\ \A k \in 1..Len(query) : lower(query[k]) = lower(content[i + k - 1])

\* score * relevance: 2.0 for the query in the content, 1.5 for one of its
\* words, 1.0 without a query
final_score(memory, query, now) ==
    LET score == calculate_score(memory.use_count, memory.last_used, memory.strength, now)
    IN IF query = <<>> THEN score
       ELSE IF InContent(query, memory.content) THEN 2 * score
       ELSE IF LowerSet(query) \cap LowerSet(memory.content) # {} THEN (3 * score) \div 2
       ELSE score

\* SearchResult(memory, score)
SearchResult(memory, query, now) ==
    [id |-> memory.id, final_score |-> final_score(memory, query, now)]

\* search_memory_handler: the candidates of the storage, scored, filtered by
\* min_score, ranked, and cut to top_k
search_memory_handler(mems, query, tags, top_k, window_days, min_score, now) ==
    LET found == search_memories(mems, tags, window_days, top_k * 3, now)
        kept == SelectSeq(found, LAMBDA x :
                    min_score = NoInt
                        \/ calculate_score(x.use_count, x.last_used, x.strength, now)
                               >= min_score)
        results == ranked_scores([i \in 1..Len(kept) |-> SearchResult(kept[i], query, now)])
    IN SubSeq(results, 1, Min2(Len(results), top_k))

\* the memories to search: three used just now, one used two half-lives ago
\* that was used more often, and an archived one
SearchPool ==
    << Memory("a", <<"ts">>, <<"ts">>, <<>>, 0, 3, 1, 10),
       Memory("b", <<"db", "ts">>, <<>>, <<>>, 0, 3, 1, 10),
       Memory("c", <<"misc">>, <<"ts">>, <<>>, 0, 3, 2, 10),
       Memory("d", <<"db">>, <<"ts">>, <<>>, 0, 1, 4, 20),
       [Memory("e", <<"db">>, <<"ts">>, <<>>, 0, 3, 4, 20) EXCEPT !.status = "ARCHIVED"] >>

SearchClock == 3

InitSearchMemory ==
    \E kept \in SUBSET MemIds :
        /\ memories = SelectSeq(SearchPool, LAMBDA x : x.id \in kept)
        /\ memFile = [i \in 1..Len(memories) |-> DumpMemory(memories[i])]
        /\ relations = <<>>
        /\ relFile = <<>>
        /\ deleted_memory_ids = {}
        /\ deleted_relation_ids = {}
        /\ graph = EmptyGraph
        /\ mw = IdleMw
        /\ call = NoCall
        /\ sqlite = NoRows
        /\ lastOp = [op |-> "connect"]

SearchMemory ==
    \E query \in {<<>>, <<"db">>, <<"TS", "db">>}, tags \in {<<>>, <<"ts">>},
       top_k \in {1, 2}, window_days \in {NoInt, 1}, min_score \in {NoInt, 1100} :
        /\ lastOp' = [op |-> "search_memory", query |-> query, tags |-> tags,
                      top_k |-> top_k, window_days |-> window_days,
                      min_score |-> min_score,
                      results |-> search_memory_handler(memories, query, tags, top_k,
                                      window_days, min_score, SearchClock)]
        /\ UNCHANGED <<storageVars, serviceVars>>

NextSearchMemory == SearchMemory

SpecSearchMemory == InitSearchMemory /\ [][NextSearchMemory]_vars

(***************************************************************************)
(* Database (SQLite) next to JSONLStorage                                  *)
(***************************************************************************)
\* the row save_memory inserts: the INSERT names no entities column, which
\* keeps its default '[]'
Row(m) == [DumpMemory(m) EXCEPT !.entities = <<>>]

\* INSERT OR REPLACE: a row of the same id goes, the new row comes last
Database_save_memory(rows, m) == Append(DictDel(rows, m.id), Row(m))

\* Database.update_memory: the rows after it, and what it returns
Database_update_memory(rows, id, p) ==
    IF p = Partial(NoInt, NoInt, NoInt, NoStr, NoInt, NoStr)
    THEN [rows |-> rows, result |-> FALSE]
    ELSE [rows |-> [i \in 1..Len(rows) |->
                       IF rows[i].id = id
                       THEN DumpMemory(ApplyPartial(LoadMemory(rows[i]), p))
                       ELSE rows[i]],
          result |-> DictHas(rows, id)]

\* Database.delete_memory
Database_delete_memory(rows, id) ==
    [rows |-> DictDel(rows, id), result |-> DictHas(rows, id)]

\* Database.get_memory: Memory.from_db_row of the row
Database_get_memory(rows, id) ==
    IF DictHas(rows, id) THEN <<LoadMemory(DictGet(rows, id))>> ELSE None

\* Database.list_memories: OFFSET is part of the query only with a LIMIT;
\* rows of equal last_used come in the order of the table
Database_list_memories(rows, status, limit, offset) ==
    LET loaded == [i \in 1..Len(rows) |-> LoadMemory(rows[i])]
        wanted == IF status = NoStr THEN loaded
                  ELSE SelectSeq(loaded, LAMBDA x : x.status = status)
        sorted == SortedByLastUsed(wanted)
    IN IF limit = NoInt THEN sorted
       ELSE SubSeq(sorted, offset + 1, Min2(Len(sorted), offset + limit))

\* JSONLStorage.list_memories(status, limit, offset)
JSONLStorage_list_memories(mems, status, limit, offset) ==
    LET wanted == IF status = NoStr THEN mems
                  ELSE SelectSeq(mems, LAMBDA x : x.status = status)
        sorted == SortedByLastUsed(wanted)
        skipped == IF offset > 0 THEN SubSeq(sorted, offset + 1, Len(sorted)) ELSE sorted
    IN IF limit = NoInt THEN skipped
       ELSE SubSeq(skipped, 1, Min2(Len(skipped), limit))

\* JSONLStorage.count_memories(status)
count_memories(mems, status) ==
    Len(IF status = NoStr THEN mems ELSE SelectSeq(mems, LAMBDA x : x.status = status))

\* Database.count_memories(status): COUNT(*) with the status value as parameter
Database_count_memories(rows, status) ==
    count_memories([i \in 1..Len(rows) |-> LoadMemory(rows[i])], status)

\* the same call on both backends
SaveBoth ==
    \E m \in SaveInputs :
        /\ Leaves([Storage EXCEPT !.memories = DictSet(@, m),
                                  !.memFile = _append_memory(@, m)])
        /\ sqlite' = [sqlite EXCEPT !.memories = Database_save_memory(@, m)]
        /\ lastOp' = [op |-> "save_memory"]
        /\ UNCHANGED <<relations, deleted_relation_ids, relFile, graph, mw, call>>

UpdateBoth ==
    \E id \in StoreIds,
       p \in UpdateInputs \cup {Partial(NoInt, NoInt, NoInt, NoStr, NoInt, NoStr)} :
        LET updated == Database_update_memory(sqlite.memories, id, p)
        IN /\ Leaves(Updated(Storage, id, p, TRUE))
           /\ sqlite' = [sqlite EXCEPT !.memories = updated.rows]
           /\ lastOp' = [op |-> "update_memory", jsonl |-> DictHas(memories, id),
                         sqlite |-> updated.result]
           /\ UNCHANGED <<relations, deleted_relation_ids, relFile, graph, mw, call>>

DeleteBoth ==
    \E id \in StoreIds :
        LET deleted == Database_delete_memory(sqlite.memories, id)
        IN /\ Leaves(Deleted(Storage, id, TRUE))
           /\ sqlite' = [sqlite EXCEPT !.memories = deleted.rows]
           /\ lastOp' = [op |-> "delete_memory", jsonl |-> DictHas(memories, id),
                         sqlite |-> deleted.result]
           /\ UNCHANGED <<relations, deleted_relation_ids, relFile, graph, mw, call>>

CreateRelationBoth ==
    \E r \in RelationInputs :
        /\ Room
        /\ relations' = DictSet(relations, r)
        /\ relFile' = _append_relation(relFile, r)
        /\ sqlite' = [sqlite EXCEPT !.relations = Append(DictDel(@, r.id), r)]
        /\ lastOp' = [op |-> "create_relation"]
        /\ UNCHANGED <<memories, memFile, deleted_memory_ids, deleted_relation_ids,
                       graph, mw, call>>

NextBackends == SaveBoth \/ UpdateBoth \/ DeleteBoth \/ CreateRelationBoth

SpecBackends == Init /\ [][NextBackends]_vars

\* dict invariants of the model: one entry per key
DictOk ==
    /\ Cardinality(DictKeys(memories)) = Len(memories)
    /\ Cardinality(DictKeys(relations)) = Len(relations)

(***************************************************************************)
(* Claims about the storage                                                *)
(***************************************************************************)
Triple(r) == <<r.from_memory_id, r.to_memory_id, r.relation_type>>

TripleOf(from, to, type) == <<from, to, type>>

WithTriple(rels, t) == {i \in 1..Len(rels) : Triple(rels[i]) = t}

\* C1: at every reachable state, replaying both files as a fresh connect()
\* does yields exactly the id-to-record maps the writing instance holds.
ReplayEqualsMemory ==
    /\ AsMap(connect(memFile, relFile).memories) = AsMap(memories)
    /\ AsMap(connect(memFile, relFile).relations) = AsMap(relations)

\* a record, its tombstone and a later record of the same id are in the file,
\* and a relation line is superseded
C1Witness ==
    /\ \E i, j, k \in 1..Len(memFile) :
           /\ i < j /\ j < k
           /\ ~IsDeleted(memFile[i]) /\ IsDeleted(memFile[j]) /\ ~IsDeleted(memFile[k])
           /\ memFile[i].id = memFile[j].id /\ memFile[j].id = memFile[k].id
    /\ relations # <<>>

OneLinePerRecord(file, d) ==
    /\ Len(file) = Len(d)
    /\ \A i \in 1..Len(file) : ~IsDeleted(file[i]) /\ file[i].id \in DictKeys(d)
    /\ \A k \in DictKeys(d) : Cardinality({i \in 1..Len(file) : file[i].id = k}) = 1

\* C2: a compact() step leaves one line per live record and no tombstone in
\* each file, keeps both in-memory maps, empties the tombstone-id sets, and a
\* fresh connect() on the compacted files rebuilds the same in-memory state.
CompactConverges ==
    [][lastOp'.op = "compact" =>
         /\ memories' = memories
         /\ relations' = relations
         /\ OneLinePerRecord(memFile', memories')
         /\ OneLinePerRecord(relFile', relations')
         /\ deleted_memory_ids' = {}
         /\ deleted_relation_ids' = {}
         /\ LET fresh == connect(memFile', relFile')
            IN /\ AsMap(fresh.memories) = AsMap(memories')
               /\ AsMap(fresh.relations) = AsMap(relations')
               /\ fresh.deleted_memory_ids = deleted_memory_ids'
               /\ fresh.deleted_relation_ids = deleted_relation_ids']_vars

\* compact() has dropped tombstones or superseded lines and kept live records
C2Witness ==
    /\ lastOp.op = "compact"
    /\ lastOp.memories_before > lastOp.memories_after
    /\ lastOp.memories_after > 0
    /\ Len(memFile) = lastOp.memories_after

\* C3: storage holds at most one relation per (from, to, type) triple (so no
\* create with an already-present triple has been stored).
RelationTripleUnique ==
    \A i, j \in 1..Len(relations) :
        Triple(relations[i]) = Triple(relations[j]) => i = j

\* C4: a create_relation tool call appends a relation only when both ids
\* resolve to stored memories and no relation with the same triple exists;
\* otherwise it returns success = false, with the id of the existing relation
\* of that triple in the duplicate case, and changes neither the relation map
\* nor relations.jsonl.
ToolCreatesOnlyValidRelation ==
    [][lastOp'.op = "create_relation_handler" =>
         LET t == TripleOf(lastOp'.from, lastOp'.to, lastOp'.type)
             resolved == DictHas(memories, lastOp'.from) /\ DictHas(memories, lastOp'.to)
             dup == WithTriple(relations, t)
         IN /\ (relations' # relations \/ relFile' # relFile) => (resolved /\ dup = {})
            /\ lastOp'.success => (resolved /\ dup = {})
            /\ ~(resolved /\ dup = {}) =>
                  /\ ~lastOp'.success
                  /\ relations' = relations
                  /\ relFile' = relFile
            /\ (resolved /\ dup # {}) =>
                  \E i \in dup : relations[i].id = lastOp'.existing_relation_id]_vars

(***************************************************************************)
(* The activation service                                                  *)
(***************************************************************************)
Activated == lastOp.op = "activate"

ScoredIds(scores) == {scores[i].id : i \in 1..Len(scores)}

\* C5: the result of activate holds at most max_memories memories, every score
\* it returns is at least the activation threshold, and every final score
\* computed lies between 0 and 1
ActivationBounds ==
    Activated =>
        /\ Len(lastOp.result.activated_memories) <= lastOp.context.max_memories
        /\ Len(lastOp.result.activation_scores) = Len(lastOp.result.activated_memories)
        /\ \A i \in 1..Len(lastOp.result.activation_scores) :
               /\ lastOp.result.activation_scores[i].id = lastOp.result.activated_memories[i]
               /\ lastOp.result.activation_scores[i].final_score
                      >= lastOp.context.activation_threshold
               /\ lastOp.result.activation_scores[i].final_score \in 0..SCALE
        /\ \A i \in 1..Len(lastOp.scored) : lastOp.scored[i].final_score \in 0..SCALE

\* a call that scored more memories than it may return, and one that scored a
\* memory below the threshold
C5Witness ==
    /\ Activated
    /\ lastOp.result.activated_memories # <<>>
    /\ \/ /\ Len(lastOp.result.activated_memories) = lastOp.context.max_memories
          /\ Len(lastOp.scored) > lastOp.context.max_memories
       \/ \E i \in 1..Len(lastOp.scored) :
              lastOp.scored[i].final_score < lastOp.context.activation_threshold

\* the memories the relations of the graph reach from the direct matches in
\* k hops and no fewer; a memory the storage has lost is reached but not left
RECURSIVE Level(_)
Level(k) ==
    IF k = 0 THEN lastOp.result.direct_matches
    ELSE LET seen == UNION {Level(j) : j \in 0..(k - 1)}
         IN {t \in MemIds \ seen :
                \E s \in Level(k - 1) : /\ DictHas(memories, s)
                                        /\ t \in Range(graph.outgoing_relations[s])}

SourceOfDepth(k) ==
    CASE k = 0 -> "direct"
      [] k = 1 -> "spread_1hop"
      [] k = 2 -> "spread_2hop"
      [] k = 3 -> "spread_3hop"

\* C6: in one call of activate every memory is scored at most once, only
\* memories within 3 hops of the direct matches are scored, and the source of
\* a score names the BFS depth of its memory
ScoredOncePerDepth ==
    Activated =>
        /\ \A id \in MemIds : lastOp.calcs[id] <= 1
        /\ \A i \in 1..Len(lastOp.scored) :
               \E k \in 0..3 : /\ lastOp.scored[i].id \in Level(k)
                               /\ lastOp.scored[i].source = SourceOfDepth(k)
        /\ \A i, j \in 1..Len(lastOp.scored) :
               lastOp.scored[i].id = lastOp.scored[j].id => i = j

\* a call that scored a memory 3 hops away, left a stored memory 4 hops away
\* unscored, and met a relation that leads back to a direct match
C6Witness ==
    /\ Activated
    /\ \E i \in 1..Len(lastOp.scored) : lastOp.scored[i].source = "spread_3hop"
    /\ \E id \in Level(4) : DictHas(memories, id) /\ id \notin ScoredIds(lastOp.scored)
    /\ \E id \in ScoredIds(lastOp.scored) \ lastOp.result.direct_matches :
           Range(graph.outgoing_relations[id]) \cap lastOp.result.direct_matches # {}

\* C7: when the spreading step raises, the result has tier keyword_only, no
\* spread matches, and only direct matches among its memories and scores
SpreadFailureKeepsDirectOnly ==
    (Activated /\ lastOp.spread_raised) =>
        /\ lastOp.result.fallback_tier = "keyword_only"
        /\ lastOp.result.spread_matches = {}
        /\ Range(lastOp.result.activated_memories) \subseteq lastOp.result.direct_matches
        /\ ScoredIds(lastOp.result.activation_scores) \subseteq lastOp.result.direct_matches

\* C8: activate propagates no exception; a failure of the extraction, the
\* lookup, the fetch, the scoring or the ranking yields the empty result of
\* tier error
FailureYieldsErrorResult ==
    Activated =>
        /\ ~lastOp.propagated
        /\ lastOp.raised \in Stages => lastOp.result = EmptyResult("error")
        /\ lastOp.raised = "none" => lastOp.result.fallback_tier \in {"full", "keyword_only"}

\* a call whose ranking raised, after memories had been fetched and scored
C8Witness ==
    /\ Activated
    /\ lastOp.raised = "rank"
    /\ lastOp.result.fallback_tier = "error"

\* C9: no memory of context.already_activated is among the activated memories
AlreadyActivatedExcluded ==
    Activated =>
        Range(lastOp.result.activated_memories) \cap lastOp.context.already_activated = {}

(***************************************************************************)
(* The middleware                                                          *)
(***************************************************************************)
\* C10: a tool call that on_call_tool has ended has invoked call_next once and
\* returned what it returned, whatever became of the activation; before the
\* end call_next has not been invoked
CallNextExactlyOnce ==
    /\ mw.calls <= 1
    /\ mw.pc = "done" =>
           /\ mw.calls = 1
           /\ mw.returned = <<call_next(mw.tool, mw.arguments)>>
    /\ mw.pc \in {"activating", "call_next"} => mw.calls = 0 /\ mw.returned = None

\* a call that ended after its activation had timed out
C10Witness ==
    /\ mw.pc = "done"
    /\ mw.activation = "timeout"
    /\ mw.calls = 1

\* C11: when the activation ends after the deadline of the middleware or
\* raises, no result is stored on the context of the call; a stored result is
\* one that activate returned within the deadline
LateResultDiscarded ==
    /\ (mw.late \/ mw.activation \in {"timeout", "raises"}) => mw.activated_memories = None
    /\ mw.activated_memories # None => mw.activation = "result" /\ ~mw.late

\* C12: the arguments of the call are those it came with, when the tool runs
\* and after the call
ArgumentsUnchanged ==
    /\ mw.arguments = mw.received
    /\ mw.pc = "done" => mw.returned = <<call_next(mw.tool, mw.received)>>

\* a call whose query was read from its arguments, ended
C12Witness ==
    /\ mw.pc = "done"
    /\ mw.query # None
    /\ mw.activation \in {"result", "timeout", "raises"}
    /\ mw.received # None

(***************************************************************************)
(* The scheduler                                                           *)
(***************************************************************************)
\* the events of a tick in which the first n agents returned
RECURSIVE Returned(_)
Returned(n) ==
    IF n = 0 THEN <<>>
    ELSE Returned(n - 1)
           \o <<[agent |-> <<"decay", "cluster", "merge", "promote", "relations">>[n],
                 event |-> "start"],
                [agent |-> <<"decay", "cluster", "merge", "promote", "relations">>[n],
                 event |-> "return"]>>

\* C13: a tick starts the agents in the order decay, cluster, merge, promote,
\* relations, each after the one before it returned; an agent that raises is
\* the last one started and its exception leaves run_pipeline
PipelineInOrder ==
    lastOp.op = "run_pipeline" =>
        \/ /\ lastOp.tick.raised = NoStr
           /\ lastOp.tick.events = Returned(5)
           /\ \A a \in DOMAIN lastOp.runs : lastOp.runs[a] # "raises"
           /\ Len(lastOp.tick.results) = 5
        \/ \E n \in 0..4 :
              LET name == <<"decay", "cluster", "merge", "promote", "relations">>[n + 1]
              IN /\ lastOp.tick.raised = name
                 /\ lastOp.runs[name] = "raises"
                 /\ lastOp.tick.events = Returned(n) \o <<[agent |-> name, event |-> "start"],
                                                          [agent |-> name, event |-> "raise"]>>

\* a tick in which merge raised while promote and relations would have run
C13Witness ==
    /\ lastOp.op = "run_pipeline"
    /\ lastOp.tick.raised = "merge"
    /\ lastOp.runs["promote"] = "items"
    /\ Len(lastOp.tick.events) = 6

\* C14: a stored memory changes its status only from active (to promoted or
\* archived) and is removed only while active; the status of a memory that is
\* promoted or archived never changes under save, touch, gc and promote
StatusOnlyFromActive ==
    [][\A i \in 1..Len(memories) :
          LET m == memories[i]
          IN IF DictHas(memories', m.id)
             THEN DictGet(memories', m.id).status # m.status => m.status = "ACTIVE"
             ELSE m.status = "ACTIVE"]_vars

\* C15: in every state the tools reach, a stored memory has promoted_at and
\* promoted_to both set exactly when its status is promoted
PromotedFieldsIffPromoted ==
    \A i \in 1..Len(memories) :
        (memories[i].promoted_at # NoInt /\ memories[i].promoted_to # NoStr)
            <=> memories[i].status = "PROMOTED"

\* a promoted memory next to one that is not promoted
C15Witness ==
    /\ lastOp.op = "promote_handler"
    /\ \E i \in 1..Len(memories) : memories[i].status = "PROMOTED"
    /\ \E i \in 1..Len(memories) : memories[i].status # "PROMOTED"

\* the vault write for the i-th candidate of the last promote_memory call did
\* not report success
VaultFailedAt(op, i) == op.fault.kind \in {"vault failed", "vault raises"} /\ op.fault.at = i

\* C16: promote_memory marks a memory promoted (with promoted_at = now and
\* promoted_to = the returned path) only when the vault write for it reported
\* success; a memory whose vault write reported failure is left as it was; a
\* request for a memory that is already promoted fails and changes nothing
PromoteOnlyAfterVaultSuccess ==
    [][lastOp'.op = "promote_handler" =>
          /\ \A k \in 1..Len(memories) :
                 LET m == memories[k]
                     n == DictGet(memories', m.id)
                     at == {i \in 1..Len(lastOp'.candidates) : lastOp'.candidates[i] = m.id}
                 IN /\ DictHas(memories', m.id)
                    /\ (n.status = "PROMOTED" /\ m.status # "PROMOTED") =>
                           /\ ~lastOp'.dry_run
                           /\ \E i \in at : ~VaultFailedAt(lastOp', i)
                           /\ n.promoted_at = lastOp'.now
                           /\ n.promoted_to = "vault/" \o m.id \o ".md"
                    /\ (\E i \in at : lastOp'.fault = ToolFault("vault failed", i)) => n = m
          /\ (/\ lastOp'.memory_id # NoStr
              /\ DictHas(memories, lastOp'.memory_id)
              /\ DictGet(memories, lastOp'.memory_id).status = "PROMOTED") =>
                 ~lastOp'.success /\ UNCHANGED storageVars]_vars

\* the vault reported failure for the first of two candidates and the second
\* one was promoted
C16Witness ==
    /\ lastOp.op = "promote_handler"
    /\ lastOp.fault = ToolFault("vault failed", 1)
    /\ Len(lastOp.candidates) = 2
    /\ lastOp.promoted_ids = <<lastOp.candidates[2]>>
    /\ DictGet(memories, lastOp.candidates[1]).status = "ACTIVE"
    /\ DictGet(memories, lastOp.candidates[2]).status = "PROMOTED"

\* the score gc computes for a stored memory
ScoreAt(m, now) == calculate_score(m.use_count, m.last_used, m.strength, now)

\* C17: gc with dry_run=false that runs to its end deletes (or, with
\* archive_instead, archives) exactly the active memories whose score is
\* below forget_threshold, or the limit lowest-scoring of them when a limit is
\* given, and changes no other memory
GcRemovesExactlyEligible ==
    [][(lastOp'.op = "gc_handler" /\ ~lastOp'.dry_run /\ ~lastOp'.raised) =>
          LET now == lastOp'.now
              limit == lastOp'.limit
              eligible == {i \in 1..Len(memories) :
                              /\ memories[i].status = "ACTIVE"
                              /\ ScoreAt(memories[i], now) < forget_threshold}
              changed == {i \in 1..Len(memories) :
                             \/ ~DictHas(memories', memories[i].id)
                             \/ DictGet(memories', memories[i].id) # memories[i]}
              n == IF limit = NoInt THEN Cardinality(eligible)
                   ELSE Min2(limit, Cardinality(eligible))
          IN /\ changed \subseteq eligible
             /\ Cardinality(changed) = n
             /\ \A i \in changed, j \in eligible \ changed :
                    ScoreAt(memories[i], now) <= ScoreAt(memories[j], now)
             /\ \A i \in changed :
                    IF lastOp'.archive_instead
                    THEN /\ DictHas(memories', memories[i].id)
                         /\ DictGet(memories', memories[i].id)
                                = [memories[i] EXCEPT !.status = "ARCHIVED"]
                    ELSE ~DictHas(memories', memories[i].id)
             /\ DictKeys(memories') \subseteq DictKeys(memories)]_vars

\* the ids of the active memories gc may forget at now
ForgettableIds(now) ==
    {memories[i].id : i \in {k \in 1..Len(memories) :
                                /\ memories[k].status = "ACTIVE"
                                /\ ScoreAt(memories[k], now) < forget_threshold}}

FailureDoesNotStopLoop ==
    /\ (lastOp.op = "gc_handler" /\ ~lastOp.dry_run) =>
           Cardinality(Range(lastOp.selected) \ Range(lastOp.done))
               <= IF lastOp.raised THEN 1 ELSE 0
    /\ (lastOp.op = "promote_handler" /\ ~lastOp.dry_run /\ lastOp.fault.kind # "none") =>
           \A i \in 1..Len(lastOp.candidates) :
               i # lastOp.fault.at => lastOp.candidates[i] \in Range(lastOp.promoted_ids)

\* C20: connect() skips a rejected last line of memories.jsonl or
\* relations.jsonl and loads every earlier record; a rejected line that is not
\* the last aborts the load with an error that names the number of the line
TornLastLineSkipped ==
    lastOp.op = "connect" =>
        /\ FirstRejected(memFile) = Len(memFile) /\ Len(memFile) > 0 =>
               /\ lastOp.raised # "memories.jsonl"
               /\ memories = LoadMemories(SubSeq(memFile, 1, Len(memFile) - 1), 1, <<>>, {}).map
        /\ FirstRejected(memFile) \in 1..(Len(memFile) - 1) =>
               /\ lastOp.raised = "memories.jsonl"
               /\ lastOp.error[1].lineno = FirstRejected(memFile)
        /\ (FirstRejected(memFile) = 0 /\ FirstRejected(relFile) = Len(relFile)
                /\ Len(relFile) > 0) =>
               /\ lastOp.raised = NoStr
               /\ relations = LoadRelations(SubSeq(relFile, 1, Len(relFile) - 1), 1, <<>>, {}).map
        /\ (FirstRejected(memFile) = 0 /\ FirstRejected(relFile) \in 1..(Len(relFile) - 1)) =>
               /\ lastOp.raised = "relations.jsonl"
               /\ lastOp.error[1].lineno = FirstRejected(relFile)

\* C21: touch_memory on a stored id adds 1 to use_count, sets last_used to
\* now, sets strength to min(2.0, strength + 0.1) with boost_strength and
\* leaves it otherwise, and changes nothing else; on an unknown id it reports
\* failure and changes nothing
TouchReinforcesOnly ==
    [][lastOp'.op = "touch_memory_handler" =>
          IF DictHas(memories, lastOp'.memory_id)
          THEN LET m == DictGet(memories, lastOp'.memory_id)
                   s == IF ~lastOp'.boost_strength THEN m.strength
                        ELSE IF m.strength + 1 > 20 THEN 20 ELSE m.strength + 1
               IN /\ lastOp'.success
                  /\ Len(memories') = Len(memories)
                  /\ \A i \in 1..Len(memories) :
                         memories'[i] = IF memories[i].id # m.id THEN memories[i]
                                        ELSE [m EXCEPT !.use_count = m.use_count + 1,
                                                       !.last_used = lastOp'.now,
                                                       !.strength = s]
                  /\ UNCHANGED <<relations, deleted_memory_ids, deleted_relation_ids,
                                 relFile>>
          ELSE ~lastOp'.success /\ UNCHANGED storageVars]_vars

\* a boosted touch of a memory whose strength is 2.0 already
C21Witness ==
    /\ lastOp.op = "touch_memory_handler"
    /\ lastOp.success
    /\ lastOp.boost_strength
    /\ DictGet(memories, lastOp.memory_id).strength = 20
    /\ DictGet(memories, lastOp.memory_id).use_count = 11

\* C22: under a clock that does not go back, every stored memory has
\* created_at <= last_used <= now in every state that save_memory,
\* touch_memory, gc and promote_memory reach
TimesOrdered ==
    \A i \in 1..Len(memories) :
        /\ memories[i].created_at <= memories[i].last_used
        /\ "now" \in DOMAIN lastOp => memories[i].last_used <= lastOp.now

\* a memory saved, touched later and looked at later still
C22Witness ==
    /\ "now" \in DOMAIN lastOp
    /\ \E i \in 1..Len(memories) :
           /\ memories[i].created_at < memories[i].last_used
           /\ memories[i].last_used < lastOp.now

\* the value update_memory leaves in one field: the supplied one, or the old
Supplied(new, old, none) == IF new # none THEN new ELSE old

\* C23: update_memory on a stored id changes only the supplied fields among
\* last_used, use_count, strength, status, promoted_at and promoted_to, keeps
\* the rest of the record and every other record, and appends exactly one line
\* holding the whole record; on an unknown id it returns false and changes
\* neither the map nor the file
UpdateChangesSuppliedOnly ==
    [][lastOp'.op = "update_memory" =>
          LET id == lastOp'.memory_id
              p == lastOp'.partial
          IN IF DictHas(memories, id)
             THEN LET m == DictGet(memories, id)
                      n == [id |-> m.id, content |-> m.content, tags |-> m.tags,
                            entities |-> m.entities, created_at |-> m.created_at,
                            last_used |-> Supplied(p.last_used, m.last_used, NoInt),
                            use_count |-> Supplied(p.use_count, m.use_count, NoInt),
                            strength |-> Supplied(p.strength, m.strength, NoInt),
                            status |-> Supplied(p.status, m.status, NoStr),
                            promoted_at |-> Supplied(p.promoted_at, m.promoted_at, NoInt),
                            promoted_to |-> Supplied(p.promoted_to, m.promoted_to, NoStr)]
                  IN /\ lastOp'.result
                     /\ Len(memories') = Len(memories)
                     /\ \A i \in 1..Len(memories) :
                            memories'[i] = IF memories[i].id = id THEN n ELSE memories[i]
                     /\ memFile' = Append(memFile, [n EXCEPT !.status = StatusValue(@)])
                     /\ UNCHANGED <<relations, relFile, deleted_memory_ids,
                                    deleted_relation_ids>>
             ELSE ~lastOp'.result /\ UNCHANGED storageVars]_vars

\* an update that supplies status, promoted_at and promoted_to to a memory
\* whose strength and use_count an earlier update had changed
C23Witness ==
    /\ lastOp.op = "update_memory"
    /\ lastOp.result
    /\ lastOp.partial.status = "PROMOTED"
    /\ DictGet(memories, lastOp.memory_id).strength = 11
    /\ DictGet(memories, lastOp.memory_id).status = "PROMOTED"

\* C24: post_save_check returns no action when the score of the memory is at
\* least urgent_threshold or the memory is not stored; otherwise a descriptor
\* with the memory id, the score and the action would_flag_urgent in a dry
\* run and flagged_urgent when live; it never changes the storage
PostSaveCheckFlagsUrgent ==
    [][lastOp'.op = "post_save_check" =>
          LET id == lastOp'.memory_id
              stored == {i \in 1..Len(memories) : memories[i].id = id}
              urgent == \E i \in stored :
                            ScoreAt(memories[i], lastOp'.now) < DEFAULT_URGENT_THRESHOLD
          IN /\ UNCHANGED storageVars
             /\ ~urgent => lastOp'.result = <<>>
             /\ urgent =>
                    /\ Len(lastOp'.result) = 1
                    /\ lastOp'.result[1].memory_id = id
                    /\ \A i \in stored :
                           lastOp'.result[1].score = ScoreAt(memories[i], lastOp'.now)
                    /\ lastOp'.result[1].action
                           = IF lastOp'.dry_run THEN "would_flag_urgent"
                             ELSE "flagged_urgent"]_vars

\* a dry-run check of a memory that was touched and has decayed since
C24Witness ==
    /\ lastOp.op = "post_save_check"
    /\ lastOp.dry_run
    /\ Len(lastOp.result) = 1
    /\ lastOp.result[1].score > 0
    /\ lastOp.result[1].action = "would_flag_urgent"

\* C25: activated_memories is listed by final_score, the highest first, and
\* is a top-k selection: no scored memory that is left out has a final_score
\* that is at least the activation threshold and above that of a listed one
RankedTopK ==
    Activated =>
        LET listed == lastOp.result.activation_scores
            left == {i \in 1..Len(lastOp.scored) :
                        lastOp.scored[i].id \notin Range(lastOp.result.activated_memories)}
        IN /\ \A i \in 1..Len(listed), j \in 1..Len(listed) :
                  i < j => listed[i].final_score >= listed[j].final_score
           /\ \A i \in left, j \in 1..Len(listed) :
                  ~ /\ lastOp.scored[i].final_score >= lastOp.context.activation_threshold
                    /\ lastOp.scored[i].final_score > listed[j].final_score

\* a full list, and a scored memory at or above the threshold and below the
\* first listed one that the cut to max_memories left out
C25Witness ==
    /\ Activated
    /\ Len(lastOp.result.activation_scores) = lastOp.context.max_memories
    /\ \E i \in 1..Len(lastOp.scored) :
           /\ lastOp.scored[i].id \notin Range(lastOp.result.activated_memories)
           /\ lastOp.scored[i].final_score >= lastOp.context.activation_threshold
           /\ lastOp.scored[i].final_score < lastOp.result.activation_scores[1].final_score

\* the place of the i-th result after a stable sort by score, highest first
PlaceOf(results, i) ==
    1 + Cardinality({j \in 1..Len(results) : results[j].score > results[i].score})
      + Cardinality({j \in 1..(i - 1) : results[j].score = results[i].score})

\* the key the claim names: the first 100 characters, lowercased and trimmed
KeyOf(content) ==
    LET first == IF Len(content) > 100 THEN SubSeq(content, 1, 100) ELSE content
    IN strip([i \in 1..Len(first) |-> lower(first[i])])

\* C26: search_unified returns the first limit elements of the merged
\* candidates sorted by weighted score, highest first, after every candidate
\* is dropped whose dedup key equals that of a higher-ranked one; so no two
\* results share a key and of each key the highest-scored candidate is kept
UnifiedSearchDeduplicates ==
    lastOp.op = "search_unified" =>
        LET results == lastOp.results
            sorted == [p \in 1..Len(results) |->
                          results[CHOOSE i \in 1..Len(results) : PlaceOf(results, i) = p]]
            kept == {p \in 1..Len(sorted) :
                        \A q \in 1..(p - 1) : KeyOf(sorted[q].content) # KeyOf(sorted[p].content)}
            first == {p \in kept : Cardinality({q \in kept : q < p}) < lastOp.limit}
            returned == lastOp.returned
        IN /\ Len(returned) = Cardinality(first)
           /\ \A p \in first : returned[Cardinality({q \in first : q <= p})] = sorted[p]
           /\ \A i \in 1..Len(returned), j \in 1..Len(returned) :
                  i # j => KeyOf(returned[i].content) # KeyOf(returned[j].content)
           /\ \A i \in 1..Len(returned), j \in 1..Len(results) :
                  KeyOf(results[j].content) = KeyOf(returned[i].content)
                      => results[j].score <= returned[i].score

\* three candidates, two of them with one key through case and white space,
\* and a limit that the results fill
C26Witness ==
    /\ lastOp.op = "search_unified"
    /\ Len(lastOp.results) = 3
    /\ Len(lastOp.returned) = 2
    /\ lastOp.limit = 2
    /\ \E i \in 1..3 : /\ lastOp.results[i].content = <<" ", "ts", " ">>
                        /\ \A j \in 1..2 : lastOp.returned[j] # lastOp.results[i]
    /\ \E i \in 1..3 : lastOp.results[i].content = <<"TS">>

\* C27: the compaction_savings reported for each file is its number of lines
\* minus its number of live records; should_compact holds exactly when that
\* is above 100 for one of the files; right after compact() both savings are
\* 0 and should_compact does not hold
SavingsAreDeadLines ==
    /\ lastOp.op = "get_storage_stats" =>
           /\ lastOp.stats.memories.compaction_savings = Len(memFile) - Len(memories)
           /\ lastOp.stats.relations.compaction_savings = Len(relFile) - Len(relations)
           /\ lastOp.stats.should_compact
                  <=> \/ Len(memFile) - Len(memories) > 100
                      \/ Len(relFile) - Len(relations) > 100
    /\ lastOp.op = "compact" =>
           LET stats == get_storage_stats(memories, relations, memFile, relFile)
           IN /\ stats.memories.compaction_savings = 0
              /\ stats.relations.compaction_savings = 0
              /\ ~stats.should_compact

\* statistics over a memories file with exactly 100 lines to save
C27Witness ==
    /\ lastOp.op = "get_storage_stats"
    /\ lastOp.stats.memories.compaction_savings = 100
    /\ lastOp.stats.relations.compaction_savings = 0
    /\ ~lastOp.stats.should_compact

\* the number of hops a source of a score stands for, 0 for a direct match
HopsOf(source) ==
    CASE source = "spread_1hop" -> 1
      [] source = "spread_2hop" -> 2
      [] source = "spread_3hop" -> 3
      [] OTHER -> 0

\* C28: a memory scored by spreading at hop h has base_relevance 0, a
\* spreading_score that is the final_score of a parent one hop nearer, from
\* which a relation leads to it, times 0.5, 0.25 or 0.125 for h = 1, 2 or 3,
\* and final_score = min(1, 0.3 * temporal_score + 0.2 * spreading_score)
SpreadScoreFromParentFinal ==
    Activated =>
        \A i \in 1..Len(lastOp.scored) :
            LET s == lastOp.scored[i]
                h == HopsOf(s.source)
            IN h > 0 =>
                   /\ s.base_relevance = 0
                   /\ s.final_score
                          = Min2((3 * s.temporal_score + 2 * s.spreading_score) \div 10, SCALE)
                   /\ \E j \in 1..Len(lastOp.scored) :
                          LET parent == lastOp.scored[j]
                          IN /\ HopsOf(parent.source) = h - 1
                             /\ s.id \in Range(graph.outgoing_relations[parent.id])
                             /\ s.spreading_score = parent.final_score \div Pow2(h)

\* the lines a step appends to memories.jsonl
AppendedLines(old, new) ==
    IF Len(new) > Len(old) THEN {new[i] : i \in (Len(old) + 1)..Len(new)} ELSE {}

\* C29: the in-memory map never runs ahead of the file: whenever a step leaves
\* a memory of the map saved, changed or removed, the step has appended that
\* memory's line, the record as the map now holds it or its tombstone, to the
\* file; after a failed append the map is as it was before the call
MapNeverAheadOfFile ==
    [][\A id \in DictKeys(memories) \cup DictKeys(memories') :
           get_memory(memories', id) # get_memory(memories, id) =>
               IF DictHas(memories', id)
               THEN DumpMemory(DictGet(memories', id)) \in AppendedLines(memFile, memFile')
               ELSE DeletionMarker(id) \in AppendedLines(memFile, memFile')]_vars

\* C30: an activation never returns a deleted memory in activated_memories,
\* direct_matches or spread_matches, whether or not the graph was rebuilt
\* since the deletion and with relations that still point to it, and when
\* nothing else fails the call does not end in the error tier
DeletedNeverActivated ==
    Activated =>
        /\ \A id \in deleted_memory_ids :
               /\ id \notin Range(lastOp.result.activated_memories)
               /\ id \notin lastOp.result.direct_matches
               /\ id \notin lastOp.result.spread_matches
               /\ \A i \in 1..Len(lastOp.scored) : lastOp.scored[i].id # id
        /\ lastOp.fault.stage = "none" =>
               /\ lastOp.raised = "none"
               /\ lastOp.result.fallback_tier = "full"

\* c was deleted, the graph still indexes it and a relation from a, which is
\* activated, still points to it; the call ends in the full tier
C30Witness ==
    /\ Activated
    /\ deleted_memory_ids = {"c"}
    /\ "c" \in graph.keyword_to_memories["db"]
    /\ "c" \in Range(graph.outgoing_relations["a"])
    /\ "a" \in lastOp.result.direct_matches
    /\ lastOp.context.enable_spreading
    /\ lastOp.fault.stage = "none"
    /\ lastOp.result.fallback_tier = "full"

\* C31: the graph an activation call can see is always a completely built
\* one, and a call that has ended has used one single graph instance for its
\* candidate lookups and its spreading traversal, also when rebuild_index
\* ran while the call was under way
OneGraphPerCall ==
    /\ graph \in {_rebuild_index(ServiceMemories, relations, FALSE),
                  _rebuild_index(memories, relations, FALSE)}
    /\ call.pc = "done" => Cardinality(call.graphs) = 1

\* the ids of the memories that have, in the named field, a term whose
\* lowercase form is among the terms
HavingTerm(mems, field, terms) ==
    {mems[i].id : i \in {j \in 1..Len(mems) :
        \E k \in 1..Len(mems[j][field]) : lower(mems[j][field][k]) \in Range(terms)}}

\* C32: on the graph built from a snapshot, find_by_tags(T) is exactly the
\* ids of the memories with a tag whose lowercase form is in T, find_by_entities
\* likewise for entities, get_related_memories(id) holds exactly the to-ids of
\* the relations that leave id (none for an id without relations), and
\* memory_count and relation_count are the sizes of the snapshot
GraphIndexesSnapshot ==
    lastOp.op = "build_activation_graph" =>
        /\ lastOp.find_by_tags = HavingTerm(memories, "tags", lastOp.terms)
        /\ lastOp.find_by_entities = HavingTerm(memories, "entities", lastOp.terms)
        /\ \A id \in MemIds :
               Range(lastOp.get_related_memories[id])
                   = {relations[i].to_memory_id :
                          i \in {j \in 1..Len(relations) : relations[j].from_memory_id = id}}
        /\ graph.memory_count = Len(memories)
        /\ graph.relation_count = Len(relations)

\* a memory with the tag TS is found under ts, a memory with the entity React
\* under react, and a relation leaves a to a memory the snapshot does not hold
C32Witness ==
    /\ lastOp.op = "build_activation_graph"
    /\ lastOp.terms = <<"React", "ts">>
    /\ lastOp.find_by_tags = {"a"}
    /\ lastOp.find_by_entities = {}
    /\ \E i \in 1..Len(lastOp.get_related_memories["a"]) :
           ~DictHas(memories, lastOp.get_related_memories["a"][i])
    /\ lastOp.get_related_memories["b"] = <<>>

\* the ids of a sequence of memories
IdsOf(mems) == {mems[i].id : i \in 1..Len(mems)}

RECURSIVE Component(_, _, _)
\* the memories with embeddings that a chain of similar pairs links to those
\* of the set
Component(linked, mems, threshold) ==
    LET more == {m \in Range(mems) :
                    /\ m.embed # NoEmbed
                    /\ \E l \in linked : similar(m.embed, l.embed, threshold)}
    IN IF more \subseteq linked THEN linked
       ELSE Component(linked \cup more, mems, threshold)

Components(mems, threshold) ==
    {{x.id : x \in Component({m}, mems, threshold)} : m \in {x \in Range(mems) : x.embed # NoEmbed}}

\* C33: the clusters cluster_memories_simple returns are, one for one, the
\* connected components (of the memories with embeddings, linked when their
\* cosine similarity is >= threshold) that have at least min_cluster_size
\* members, each cut to its first max_cluster_size members at most, whatever
\* the order of the input; no memory is in two returned clusters
ClustersAreComponents ==
    lastOp.op = "cluster_memories_simple" =>
        LET returned == lastOp.clusters
            config == lastOp.config
            large == {C \in Components(lastOp.memories, config.threshold) :
                         Cardinality(C) >= config.min_cluster_size}
        IN /\ \A i \in 1..Len(returned) :
                  \E C \in large :
                      /\ IdsOf(returned[i]) \subseteq C
                      /\ Cardinality(IdsOf(returned[i]))
                             = Min2(Cardinality(C), config.max_cluster_size)
                      /\ Len(returned[i]) = Cardinality(IdsOf(returned[i]))
           /\ Len(returned) = Cardinality(large)
           /\ \A i, j \in 1..Len(returned) :
                  i # j => IdsOf(returned[i]) \cap IdsOf(returned[j]) = {}

\* a and b, which are not similar, came before c, which is similar to both:
\* their two clusters were merged into one, which is cut to its first
\* max_cluster_size = 2 members, a and c
C33Witness ==
    /\ lastOp.op = "cluster_memories_simple"
    /\ Len(lastOp.memories) = 5
    /\ IdsOf(SubSeq(lastOp.memories, 1, 2)) = {"a", "b"}
    /\ lastOp.config = ClusterConfig(70, 3, 2)
    /\ Len(lastOp.clusters) = 1
    /\ lastOp.memories[1].id = "a"
    /\ IdsOf(lastOp.clusters[1]) = {"a", "c"}

\* the times a score is asked for: before, within and after the clock
ScoreTimes == 0..6

\* C34: for the use_count and strength of any stored memory, calculate_score
\* is never negative, does not grow as now - last_used grows, and at a now
\* before last_used it is what it is at now = last_used
ScoreDecaysOnly ==
    \A i \in 1..Len(memories) :
        LET m == memories[i]
            score(now) == calculate_score(m.use_count, m.last_used, m.strength, now)
        IN \A now \in ScoreTimes :
               /\ score(now) >= 0
               /\ now < m.last_used => score(now) = score(m.last_used)
               /\ \A later \in ScoreTimes : now <= later => score(later) <= score(now)

\* a memory touched at time 5 is stored: times before its last use exist, and
\* its score is positive and lower one half-life later
C34Witness ==
    \E i \in 1..Len(memories) :
        /\ memories[i].use_count > 0
        /\ memories[i].last_used = 5
        /\ calculate_score(memories[i].use_count, 5, memories[i].strength, 6)
               < calculate_score(memories[i].use_count, 5, memories[i].strength, 5)
        /\ calculate_score(memories[i].use_count, 5, memories[i].strength, 6) > 0

\* the step stores the memory anew, or leaves a memory whose use_count was 0
\* and which the step does not touch
NotYetTouched(id) ==
    /\ DictHas(memories', id)
    /\ \/ ~DictHas(memories, id)
       \/ /\ DictGet(memories, id).use_count = 0
          /\ ~(lastOp'.op = "touch_memory_handler" /\ lastOp'.memory_id = id)

\* C35: a memory the save_memory tool has stored has use_count 0 until
\* touch_memory is called on it, and as long as that is so its score is 0 at
\* every time, below the forget threshold and below the urgent threshold
SavedScoresZeroUntilTouched ==
    [][\A id \in DictKeys(memories') :
           NotYetTouched(id) =>
               /\ DictGet(memories', id).use_count = 0
               /\ \A now \in ScoreTimes :
                      /\ memory_score(memories', id, now) = 0
                      /\ memory_score(memories', id, now) < forget_threshold
                      /\ post_save_check(memories', id, FALSE, now) # None]_vars

\* a memory saved at time 0 is still untouched at time 5, when post_save_check
\* flags it as urgent
C35Witness ==
    /\ lastOp.op = "post_save_check"
    /\ lastOp.now = 5
    /\ lastOp.result # None
    /\ DictHas(memories, lastOp.memory_id)
    /\ DictGet(memories, lastOp.memory_id).use_count = 0
    /\ DictGet(memories, lastOp.memory_id).created_at = 0

\* C36: a memory scored through spreading only has base_relevance 0, a
\* spreading_score of 0.5 at most and a final_score of 0.4 at most, so with an
\* activation_threshold above 0.4 every activated memory is a direct match
SpreadOnlyBelowThreshold ==
    Activated =>
        /\ \A i \in 1..Len(lastOp.scored) :
               HopsOf(lastOp.scored[i].source) > 0 =>
                   /\ lastOp.scored[i].base_relevance = 0
                   /\ lastOp.scored[i].spreading_score <= 500
                   /\ lastOp.scored[i].final_score <= 400
        /\ lastOp.context.activation_threshold > 400 =>
               Range(lastOp.result.activated_memories) \subseteq lastOp.result.direct_matches

\* with the threshold 0.5 a direct match is activated, and a memory that the
\* spreading reached with a final_score above 0.3 is not
C36Witness ==
    /\ Activated
    /\ lastOp.context.activation_threshold = 500
    /\ lastOp.result.activated_memories # <<>>
    /\ \E i \in 1..Len(lastOp.scored) :
           /\ lastOp.scored[i].id \in lastOp.result.spread_matches
           /\ lastOp.scored[i].final_score > 300
           /\ lastOp.scored[i].id \notin Range(lastOp.result.activated_memories)

\* C37: once the index has been rebuilt (the graph is the one built from the
\* store as it is), every activated memory has the status active: none that
\* gc archived or promote_memory promoted, neither as a direct match nor
\* through spreading
OnlyActiveActivated ==
    (Activated /\ graph = _rebuild_index(memories, relations, FALSE)) =>
        \A i \in 1..Len(lastOp.result.activated_memories) :
            DictGet(memories, lastOp.result.activated_memories[i]).status = "ACTIVE"

\* C38: an activate call that nothing disturbs returns the activated_memories
\* and the score of every id that any other call on the same store, graph,
\* context and clock returns, whatever the orders in which the candidate set
\* and the direct-match set are iterated
ActivationOrderIndependent ==
    (Activated /\ lastOp.fault.stage = "none") =>
        LET candidate_ids == CandidateIds(graph, lastOp.context)
        IN \A order \in Orders(candidate_ids),
              queue_order \in Orders(Fetched(memories, candidate_ids)) :
               LET other == activate(graph, memories, relations, lastOp.context, 1,
                                     NoFault, order, queue_order)
               IN /\ other.result.activated_memories = lastOp.result.activated_memories
                  /\ AsMap(other.scored) = AsMap(lastOp.scored)

\* the stored memories that are active and pass the tag, window and min_score
\* filters of the search
PassingFilters(op) ==
    {x \in Range(memories) :
        /\ x.status = "ACTIVE"
        /\ op.tags = <<>> \/ Range(op.tags) \cap Range(x.tags) # {}
        /\ op.window_days = NoInt \/ x.last_used >= SearchClock - op.window_days
        /\ op.min_score = NoInt
              \/ calculate_score(x.use_count, x.last_used, x.strength, SearchClock)
                     >= op.min_score}

\* C39: search_memory returns, the highest final score first, top_k of the
\* active memories that pass the tag, window and min_score filters (all of
\* them when they are fewer), and no such memory that is left out has a higher
\* final score than a returned one
SearchReturnsTopK ==
    lastOp.op = "search_memory" =>
        LET results == lastOp.results
            passing == PassingFilters(lastOp)
            returned == {results[i].id : i \in 1..Len(results)}
        IN /\ \A i \in 1..Len(results) : \E x \in passing : x.id = results[i].id
           /\ \A i \in 1..(Len(results) - 1) :
                  results[i].final_score >= results[i + 1].final_score
           /\ Len(results) = Min2(lastOp.top_k, Cardinality(passing))
           /\ \A x \in passing, i \in 1..Len(results) :
                  x.id \notin returned =>
                      final_score(x, lastOp.query, SearchClock) <= results[i].final_score

\* C40: after the same calls of save_memory, update_memory, delete_memory
\* and create_relation, Database and JSONLStorage return the same from
\* get_memory (every field, entities included), list_memories (for each
\* status, limit and offset), count_memories and get_relations, and update
\* and delete have returned the same booleans
BackendsEquivalent ==
    /\ "jsonl" \in DOMAIN lastOp => lastOp.jsonl = lastOp.sqlite
    /\ \A id \in StoreIds :
           get_memory(memories, id) = Database_get_memory(sqlite.memories, id)
    /\ \A status \in {NoStr, "ACTIVE", "PROMOTED"} :
           /\ count_memories(memories, status) = Database_count_memories(sqlite.memories, status)
           /\ \A limit \in {NoInt, 1}, offset \in {0, 1} :
                  JSONLStorage_list_memories(memories, status, limit, offset)
                      = Database_list_memories(sqlite.memories, status, limit, offset)
    /\ {relations[i] : i \in 1..Len(relations)}
           = {sqlite.relations[i] : i \in 1..Len(sqlite.relations)}

====
